---- MODULE Spec2Model ----
(***************************************************************************)
(* A model of the streaming JSON pull-parser (src/lib/streamJSON.ts), of   *)
(* the tagged-segment splitter (src/lib/TextThoughtStateMachine.ts), of    *)
(* the synchronized reducer (src/lib/SyncReducer.ts, src/lib/reducer.ts)   *)
(* and of the loop of continueConversation over the model's events.        *)
(*                                                                         *)
(* Text is a sequence of one-character strings.  The parser state is the   *)
(* record [currentChar, nestingLevel, buffer, stream] of the object's      *)
(* fields, stream being the fragments the source has ready, with the       *)
(* fragments the source has yet to produce (coming), whether the source    *)
(* has still to end (open) and the number of stream.next() calls that      *)
(* have returned (pulls).  Every method of StreamingJSON is an operator    *)
(* from a parser state to a result record [p, err, val]: the parser state  *)
(* the call leaves behind, the message of the Error it threw ("" when it   *)
(* returned) and the value it returned.                                    *)
(***************************************************************************)
EXTENDS Integers, Sequences, FiniteSets, TLC

(***************************************************************************)
(* Values and results                                                      *)
(***************************************************************************)
Null == "<null>"
NoErr == ""
NoVal == <<"none">>

Ok(p, v) == [p |-> p, err |-> NoErr, val |-> v]
Fail(p, e) == [p |-> p, err |-> e, val |-> NoVal]

RECURSIVE Str(_)
Str(cs) == IF cs = <<>> THEN "" ELSE Head(cs) \o Str(Tail(cs))

RECURSIVE Flatten(_)
Flatten(ss) == IF ss = <<>> THEN <<>> ELSE Head(ss) \o Flatten(Tail(ss))

Show(c) == IF c = Null THEN "null" ELSE c

(***************************************************************************)
(* Character classes                                                       *)
(***************************************************************************)
NUMBER_START_CHARS == {"-", "0", "1", "2", "3", "4", "5", "6", "7", "8", "9"}
BOOLEAN_START_CHARS == {"t", "f"}
OBJECT_END_CHARS == {",", "}"}
ARRAY_END_CHARS == {",", "]"}

SPECIAL_ESCAPE_CHARS ==
  [c \in {"b", "f", "n", "r", "t", "\"", "\\", "/"} |->
     CASE c = "b" -> "<BS>"
       [] c = "f" -> "\f"
       [] c = "n" -> "\n"
       [] c = "r" -> "\r"
       [] c = "t" -> "\t"
       [] OTHER -> c]

Digit == {"0", "1", "2", "3", "4", "5", "6", "7", "8", "9"}
DigitVal(c) ==
  CASE c = "0" -> 0 [] c = "1" -> 1 [] c = "2" -> 2 [] c = "3" -> 3
    [] c = "4" -> 4 [] c = "5" -> 5 [] c = "6" -> 6 [] c = "7" -> 7
    [] c = "8" -> 8 [] c = "9" -> 9
HexDigit == Digit \cup {"A", "B", "C", "D", "E", "F", "a", "b", "c", "d", "e", "f"}
HexVal(c) ==
  CASE c \in Digit -> DigitVal(c)
    [] c \in {"A", "a"} -> 10 [] c \in {"B", "b"} -> 11
    [] c \in {"C", "c"} -> 12 [] c \in {"D", "d"} -> 13
    [] c \in {"E", "e"} -> 14 [] c \in {"F", "f"} -> 15

\* The characters the regular expression /\s/ matches, among those the
\* model's texts use ("<VT>" and "<NBSP>" stand for U+000B and U+00A0).
IsWhitespace(c) == c \in {" ", "\t", "\n", "\r", "\f", "<VT>", "<NBSP>"}

\* String.fromCharCode: the 16-bit code unit with the given code.
fromCharCode(n) ==
  CASE n = 8 -> "<BS>" [] n = 9 -> "\t" [] n = 10 -> "\n" [] n = 12 -> "\f"
    [] n = 13 -> "\r" [] n = 32 -> " " [] n = 34 -> "\"" [] n = 48 -> "0"
    [] n = 49 -> "1" [] n = 65 -> "A" [] n = 66 -> "B" [] n = 92 -> "\\"
    [] n = 97 -> "a" [] n = 98 -> "b" [] n = 169 -> "<COPYRIGHT>"
    [] OTHER -> "<U+" \o ToString(n) \o ">"

(***************************************************************************)
(* Sequencing: `await f(); rest` is Bind(f(p), LAMBDA r : rest), which     *)
(* propagates the Error of f; Throw(e, r) is r unless e is a message.      *)
(***************************************************************************)
Bind(r, rest(_)) == IF r.err # NoErr THEN r ELSE rest(r)
With(v, rest(_)) == rest(v)
Throw(e, p, rest) == IF e # NoErr THEN Fail(p, e) ELSE rest

(***************************************************************************)
(* StreamingJSON: the byte source adapter                                  *)
(***************************************************************************)
\* The result of a call that is suspended at `await this.stream.next()`: the
\* source has delivered nothing more and has not ended.  The call goes on
\* when the source delivers a fragment or ends.
Awaiting == "<awaiting the source>"

\* if (!this.buffer) { const next = await this.stream.next(); ... }: the
\* source is pulled, and gives its next fragment or, at its end, nothing.
refill(p) ==
  IF p.buffer # <<>> THEN p
  ELSE IF p.stream = <<>> THEN [p EXCEPT !.pulls = @ + 1]
  ELSE [p EXCEPT !.buffer = Head(p.stream), !.stream = Tail(p.stream),
                 !.pulls = @ + 1]

\* A variant of nextChar that throws at the end of the stream whatever the
\* current character is.
nextCharThrowsAtEnd(p) ==
  IF p.buffer = <<>> /\ p.stream = <<>> /\ p.open THEN Fail(p, Awaiting)
  ELSE With(refill(p), LAMBDA next :
    IF next.buffer = <<>>
    THEN Fail(next, "Tried to read past end of stream")
    ELSE Ok([next EXCEPT !.currentChar = Head(next.buffer),
                         !.buffer = Tail(next.buffer)], NoVal))

\* A variant of nextChar for which the end of the source never comes.
nextCharNoEnd(p) ==
  IF p.buffer = <<>> /\ p.stream = <<>> THEN Fail(p, Awaiting)
  ELSE With(refill(p), LAMBDA next :
    IF next.buffer = <<>>
    THEN IF next.currentChar = Null
         THEN Fail(next, "Tried to read past end of stream")
         ELSE Ok([next EXCEPT !.currentChar = Null], NoVal)
    ELSE Ok([next EXCEPT !.currentChar = Head(next.buffer),
                         !.buffer = Tail(next.buffer)], NoVal))

nextChar(p) ==
  IF p.buffer = <<>> /\ p.stream = <<>> /\ p.open THEN Fail(p, Awaiting)
  ELSE With(refill(p), LAMBDA next :
    IF next.buffer = <<>>
    THEN IF next.currentChar = Null
         THEN Fail(next, "Tried to read past end of stream")
         ELSE Ok([next EXCEPT !.currentChar = Null], NoVal)
    ELSE Ok([next EXCEPT !.currentChar = Head(next.buffer),
                         !.buffer = Tail(next.buffer)], NoVal))

\* while (this.currentChar && /\s/.test(this.currentChar)) await this.nextChar();
RECURSIVE whileWhitespace(_)
whileWhitespace(p) ==
  IF p.currentChar # Null /\ IsWhitespace(p.currentChar)
  THEN Bind(nextChar(p), LAMBDA r : whileWhitespace(r.p))
  ELSE Ok(p, NoVal)

consumeWhitespace(p) ==
  IF p.currentChar = Null
  THEN Bind(nextChar(p), LAMBDA r : whileWhitespace(r.p))
  ELSE whileWhitespace(p)

maybeNextChar(p) ==
  IF p.buffer = <<>> THEN Ok(p, FALSE)
  ELSE Bind(nextChar(p), LAMBDA r : Ok(r.p, TRUE))

isCurrentChar(p, test) == p.currentChar # Null /\ p.currentChar \in test

\* A variant of assertChar without the test for the end of the stream.
assertCharNoEnd(p, expected) ==
  IF p.currentChar # expected
  THEN "Expected '" \o expected \o "', but got '" \o Show(p.currentChar) \o "'"
  ELSE NoErr

\* assertChar with a string argument: the message of the Error, or NoErr.
assertChar(p, expected) ==
  IF p.currentChar = Null
  THEN "Expected '" \o expected \o "', but got end of stream"
  ELSE IF p.currentChar # expected
  THEN "Expected '" \o expected \o "', but got '" \o p.currentChar \o "'"
  ELSE NoErr

\* assertChar with a Set argument; joined is Array.from(expected).join("', '").
assertCharSet(p, expected, joined) ==
  IF p.currentChar = Null
  THEN "Expected '[object Set]', but got end of stream"
  ELSE IF p.currentChar \notin expected
  THEN "Expected one of '" \o joined \o "', but got '" \o p.currentChar \o "'"
  ELSE NoErr

peekValueType(p) ==
  With(p.currentChar, LAMBDA c :
    CASE c = "\"" -> Ok(p, "string")
      [] c = "{" -> Ok(p, "object")
      [] c = "[" -> Ok(p, "array")
      [] c \in {"t", "f"} -> Ok(p, "boolean")
      [] c = "n" -> Ok(p, "null")
      [] c = "-" \/ c \in Digit -> Ok(p, "number")
      [] OTHER ->
          Fail(p, "Expected a value in JSON stream but instead got "
                  \o (IF c # Null THEN "unexpected character '" \o c \o "'"
                      ELSE "end of stream")))

(***************************************************************************)
(* StreamingJSON: strings                                                  *)
(***************************************************************************)
\* A variant of hexLoop that takes the four digits from the buffer only, as
\* a loop without the await of nextChar's refill would.
RECURSIVE hexLoopFromBuffer(_, _, _)
hexLoopFromBuffer(p, i, hexCode) ==
  IF i >= 4 THEN Ok(p, hexCode)
  ELSE IF p.buffer = <<>>
  THEN Fail(p, "Invalid Unicode escape sequence: \\u" \o Str(hexCode))
  ELSE Bind(nextChar(p), LAMBDA r :
         IF r.p.currentChar \notin HexDigit
         THEN Fail(r.p, "Invalid Unicode escape sequence: \\u" \o Str(hexCode)
                        \o r.p.currentChar)
         ELSE hexLoopFromBuffer(r.p, i + 1, Append(hexCode, r.p.currentChar)))

\* The for loop of parseUnicodeEscape from its iteration i; val is hexCode.
RECURSIVE hexLoop(_, _, _)
hexLoop(p, i, hexCode) ==
  IF i >= 4 THEN Ok(p, hexCode)
  ELSE Bind(nextChar(p), LAMBDA r :
         IF r.p.currentChar = Null \/ r.p.currentChar \notin HexDigit
         THEN Fail(r.p, "Invalid Unicode escape sequence: \\u" \o Str(hexCode)
                        \o (IF r.p.currentChar = Null THEN "" ELSE r.p.currentChar))
         ELSE hexLoop(r.p, i + 1, Append(hexCode, r.p.currentChar)))

\* Number.parseInt(hexCode, 16)
parseInt16(hexCode) ==
  HexVal(hexCode[1]) * 4096 + HexVal(hexCode[2]) * 256
    + HexVal(hexCode[3]) * 16 + HexVal(hexCode[4])

parseUnicodeEscape(p) ==
  Bind(hexLoop(p, 0, <<>>), LAMBDA r : Ok(r.p, fromCharCode(parseInt16(r.val))))

\* A variant of decodeChar that takes an unknown escape for the character
\* itself.
decodeCharLenient(p, chunk) ==
  IF p.currentChar = "\\"
  THEN Bind(nextChar(p), LAMBDA r :
         IF isCurrentChar(r.p, {"u"})
         THEN Bind(parseUnicodeEscape(r.p), LAMBDA u : Ok(u.p, Append(chunk, u.val)))
         ELSE IF r.p.currentChar # Null /\ r.p.currentChar \in DOMAIN SPECIAL_ESCAPE_CHARS
         THEN Ok(r.p, Append(chunk, SPECIAL_ESCAPE_CHARS[r.p.currentChar]))
         ELSE IF r.p.currentChar # Null
         THEN Ok(r.p, Append(chunk, r.p.currentChar))
         ELSE Fail(r.p, "Incomplete escape code in string tried to read past end of stream"))
  ELSE IF p.currentChar # Null THEN Ok(p, Append(chunk, p.currentChar))
  ELSE Ok(p, chunk)

\* The body of the while loop of stringChunks up to maybeNextChar: decodes
\* the current character into chunk; val is the new chunk.
decodeChar(p, chunk) ==
  IF p.currentChar = "\\"
  THEN Bind(nextChar(p), LAMBDA r :
         IF isCurrentChar(r.p, {"u"})
         THEN Bind(parseUnicodeEscape(r.p), LAMBDA u : Ok(u.p, Append(chunk, u.val)))
         ELSE IF r.p.currentChar # Null /\ r.p.currentChar \in DOMAIN SPECIAL_ESCAPE_CHARS
         THEN Ok(r.p, Append(chunk, SPECIAL_ESCAPE_CHARS[r.p.currentChar]))
         ELSE IF r.p.currentChar # Null
         THEN Fail(r.p, "Invalid escape sequence: \\" \o r.p.currentChar)
         ELSE Fail(r.p, "Incomplete escape code in string tried to read past end of stream"))
  ELSE IF p.currentChar # Null THEN Ok(p, Append(chunk, p.currentChar))
  ELSE Ok(p, chunk)

\* if (chunk.length > 0) yield chunk;
yield(yielded, chunk) == IF Len(chunk) > 0 THEN Append(yielded, chunk) ELSE yielded

\* A result with the chunks yielded before it as its value: an Error thrown
\* by the generator comes after the chunks it has yielded.  held is what
\* the generator has decoded into chunk and not yielded where it stops.
Yielded(r, yielded, chunk) == [p |-> r.p, err |-> r.err, val |-> yielded, held |-> chunk]

\* A variant of chunkLoop that clears the chunk when the buffer runs out
\* without yielding it first.
RECURSIVE chunkLoopDropping(_, _, _)
chunkLoopDropping(p, chunk, yielded) ==
  IF p.currentChar = "\""
  THEN Yielded(nextChar(p), yield(yielded, chunk), <<>>)
  ELSE With(decodeChar(p, chunk), LAMBDA d :
         IF d.err # NoErr THEN Yielded(d, yielded, chunk)
         ELSE With(maybeNextChar(d.p), LAMBDA didRead :
                IF didRead.val THEN chunkLoopDropping(didRead.p, d.val, yielded)
                ELSE With(nextChar(didRead.p), LAMBDA r :
                       IF r.err # NoErr THEN Yielded(r, yielded, <<>>)
                       ELSE chunkLoopDropping(r.p, <<>>, yielded))))

\* The while loop of stringChunks; yielded is the sequence of the chunks
\* yielded so far.
RECURSIVE chunkLoop(_, _, _)
chunkLoop(p, chunk, yielded) ==
  IF p.currentChar = "\""
  THEN Yielded(nextChar(p), yield(yielded, chunk), <<>>)
  ELSE With(decodeChar(p, chunk), LAMBDA d :
         IF d.err # NoErr THEN Yielded(d, yielded, chunk)
         ELSE With(maybeNextChar(d.p), LAMBDA didRead :
                IF didRead.val THEN chunkLoop(didRead.p, d.val, yielded)
                ELSE With(nextChar(didRead.p), LAMBDA r :
                       IF r.err # NoErr THEN Yielded(r, yield(yielded, d.val), <<>>)
                       ELSE chunkLoop(r.p, <<>>, yield(yielded, d.val)))))

\* stringChunks drained by its consumer; val is the sequence of chunks.
stringChunks(p) ==
  With(consumeWhitespace(p), LAMBDA w :
    IF w.err # NoErr THEN Yielded(w, <<>>, <<>>)
    ELSE IF assertChar(w.p, "\"") # NoErr
    THEN Yielded(Fail(w.p, assertChar(w.p, "\"")), <<>>, <<>>)
    ELSE With(nextChar(w.p), LAMBDA r :
           IF r.err # NoErr THEN Yielded(r, <<>>, <<>>)
           ELSE chunkLoop(r.p, <<>>, <<>>)))

string(p) ==
  With(stringChunks(p), LAMBDA r :
    IF r.err # NoErr THEN Fail(r.p, r.err) ELSE Ok(r.p, <<"string", Flatten(r.val)>>))

(***************************************************************************)
(* StreamingJSON: numbers and keywords                                     *)
(***************************************************************************)
\* numStr += this.currentChar; await this.nextChar();  val is numStr.
takeChar(p, numStr) ==
  Bind(nextChar(p), LAMBDA r : Ok(r.p, Append(numStr, p.currentChar)))

\* while (this.currentChar && this.isCurrentChar(/[0-9]/)) { ... }
RECURSIVE digits(_, _)
digits(p, numStr) ==
  IF isCurrentChar(p, Digit)
  THEN Bind(takeChar(p, numStr), LAMBDA r : digits(r.p, r.val))
  ELSE Ok(p, numStr)

RECURSIVE TakeDigits(_)
TakeDigits(s) ==
  IF s # <<>> /\ Head(s) \in Digit THEN <<Head(s)>> \o TakeDigits(Tail(s)) ELSE <<>>

RECURSIVE DigitsVal(_, _)
DigitsVal(s, acc) ==
  IF s = <<>> THEN acc ELSE DigitsVal(Tail(s), acc * 10 + DigitVal(Head(s)))

RECURSIVE Normalize(_, _, _)
Normalize(neg, m, e) ==
  IF m = 0 THEN <<"number", neg, 0, 0>>
  ELSE IF m % 10 = 0 THEN Normalize(neg, m \div 10, e + 1)
  ELSE <<"number", neg, m, e>>

RECURSIVE NumDigits(_)
NumDigits(m) == IF m < 10 THEN 1 ELSE 1 + NumDigits(m \div 10)

\* The exponent of a numeral's tail s (empty, or e / E, a sign, digits).
Exponent(s) ==
  IF s = <<>> THEN 0
  ELSE IF Tail(s) # <<>> /\ Head(Tail(s)) = "-"
  THEN 0 - DigitsVal(Tail(Tail(s)), 0)
  ELSE IF Tail(s) # <<>> /\ Head(Tail(s)) = "+"
  THEN DigitsVal(Tail(Tail(s)), 0)
  ELSE DigitsVal(Tail(s), 0)

\* The fraction digits at the head of s (empty unless s starts with a point).
Fraction(s) == IF s # <<>> /\ Head(s) = "." THEN TakeDigits(Tail(s)) ELSE <<>>

\* A variant of Number that stops at the first character that is not a
\* digit, as Number.parseInt does.
NumberParseInt(numStr) ==
  With(numStr # <<>> /\ Head(numStr) = "-", LAMBDA neg :
    Normalize(neg, DigitsVal(TakeDigits(IF neg THEN Tail(numStr) ELSE numStr), 0), 0))

\* Number(numStr) for a numStr of the grammar number() builds: the decimal
\* value as sign, mantissa and power of ten (the mantissa not a multiple of
\* ten), which identifies the double for the short numerals of the model.
Number(numStr) ==
  With(numStr # <<>> /\ Head(numStr) = "-", LAMBDA neg :
  With(IF neg THEN Tail(numStr) ELSE numStr, LAMBDA s1 :
  With(TakeDigits(s1), LAMBDA int :
  With(Fraction(SubSeq(s1, Len(int) + 1, Len(s1))), LAMBDA frac :
    Normalize(neg, DigitsVal(int \o frac, 0),
              Exponent(SubSeq(s1, Len(int) + Len(frac)
                                    + (IF Len(frac) > 0 THEN 2 ELSE 1), Len(s1)))
                - Len(frac))))))

\* Number.isFinite: the numeral is below 1e309 (the numerals between the
\* largest double and 1e309 are outside the model's texts).
isFinite(num) == num[3] = 0 \/ NumDigits(num[3]) + num[4] <= 309

\* The `but got` part of number()'s messages: `'${this.currentChar}'`.
butGot(p) == "', but got '" \o Show(p.currentChar) \o "'"

\* number() from its exponent part on; frac holds the parser and numStr.
numberExponent(frac) ==
  IF isCurrentChar(frac.p, {"e", "E"})
  THEN Bind(takeChar(frac.p, frac.val), LAMBDA e :
       Bind(IF isCurrentChar(e.p, {"+", "-"}) THEN takeChar(e.p, e.val) ELSE e, LAMBDA s :
         IF ~isCurrentChar(s.p, Digit)
         THEN Fail(s.p, "Invalid number: Expected digit after exponent in '"
                        \o Str(s.val) \o butGot(s.p))
         ELSE digits(s.p, s.val)))
  ELSE frac

\* A variant of numberFraction that asks for no digit after the point.
numberFractionNoCheck(int) ==
  IF isCurrentChar(int.p, {"."})
  THEN Bind(takeChar(int.p, int.val), LAMBDA dot : digits(dot.p, dot.val))
  ELSE int

\* number() from its fractional part on; int holds the parser and numStr.
numberFraction(int) ==
  IF isCurrentChar(int.p, {"."})
  THEN Bind(takeChar(int.p, int.val), LAMBDA dot :
         IF ~isCurrentChar(dot.p, Digit)
         THEN Fail(dot.p, "Invalid number: Expected digit after decimal point in '"
                          \o Str(dot.val) \o butGot(dot.p))
         ELSE digits(dot.p, dot.val))
  ELSE int

\* number() from its integer part on; sign holds the parser and numStr.
numberInteger(sign) ==
  IF isCurrentChar(sign.p, {"0"}) THEN takeChar(sign.p, sign.val)
  ELSE IF isCurrentChar(sign.p, Digit \ {"0"}) THEN digits(sign.p, sign.val)
  ELSE Fail(sign.p, "Invalid number: Expected digit after '" \o Str(sign.val)
                    \o butGot(sign.p))

number(p) ==
  Bind(consumeWhitespace(p), LAMBDA w :
  Throw(assertCharSet(w.p, NUMBER_START_CHARS,
                      "-', '0', '1', '2', '3', '4', '5', '6', '7', '8', '9"), w.p,
  Bind(IF isCurrentChar(w.p, {"-"}) THEN takeChar(w.p, <<>>) ELSE Ok(w.p, <<>>), LAMBDA sign :
  Bind(numberInteger(sign), LAMBDA int :
  Bind(numberFraction(int), LAMBDA frac :
  Bind(numberExponent(frac), LAMBDA exp :
    IF ~isFinite(Number(exp.val))
    THEN Fail(exp.p, "Invalid number: '" \o Str(exp.val)
                     \o "' cannot be parsed as a finite number")
    ELSE Ok(exp.p, Number(exp.val))))))))

\* for (const char of expected) { this.assertChar(char); await this.nextChar(); }
RECURSIVE assertThenNext(_, _)
assertThenNext(p, expected) ==
  IF expected = <<>> THEN Ok(p, NoVal)
  ELSE Throw(assertChar(p, Head(expected)), p,
         Bind(nextChar(p), LAMBDA r : assertThenNext(r.p, Tail(expected))))

boolean(p) ==
  Bind(consumeWhitespace(p), LAMBDA w :
  Throw(assertCharSet(w.p, BOOLEAN_START_CHARS, "t', 'f"), w.p,
  Bind(assertThenNext(w.p, IF w.p.currentChar = "t" THEN <<"t", "r", "u", "e">>
                           ELSE <<"f", "a", "l", "s", "e">>), LAMBDA r :
    Ok(r.p, <<"boolean", w.p.currentChar = "t">>))))

\* for (const char of "ull") { await this.nextChar(); this.assertChar(char); }
RECURSIVE nextThenAssert(_, _)
nextThenAssert(p, expected) ==
  IF expected = <<>> THEN Ok(p, NoVal)
  ELSE Bind(nextChar(p), LAMBDA r :
         Throw(assertChar(r.p, Head(expected)), r.p,
               nextThenAssert(r.p, Tail(expected))))

null(p) ==
  Bind(consumeWhitespace(p), LAMBDA w :
  Throw(assertChar(w.p, "n"), w.p,
  Bind(nextThenAssert(w.p, <<"u", "l", "l">>), LAMBDA r :
  Bind(nextChar(r.p), LAMBDA n : Ok(n.p, <<"null">>)))))

(***************************************************************************)
(* UnparsedValue, StreamingObject, StreamingArray                          *)
(***************************************************************************)
\* new UnparsedValue(parent)
UnparsedValue == [didParse |-> FALSE, valid |-> TRUE]

\* A variant of markAsParsed that makes its checks and does not set didParse.
markAsParsedUnmarked(h) ==
  IF h.didParse THEN [err |-> "UnparsedValue can only be parsed once", h |-> h]
  ELSE IF ~h.valid THEN [err |-> "UnparsedValue is no longer valid", h |-> h]
  ELSE [err |-> NoErr, h |-> h]

\* markAsParsed: the message of the Error ("" for none) and the handle after.
markAsParsed(h) ==
  IF h.didParse THEN [err |-> "UnparsedValue can only be parsed once", h |-> h]
  ELSE IF ~h.valid THEN [err |-> "UnparsedValue is no longer valid", h |-> h]
  ELSE [err |-> NoErr, h |-> [h EXCEPT !.didParse = TRUE]]

\* A variant of invalidate that leaves the handle valid.
invalidateNothing(h) == h

invalidate(h) == [h EXCEPT !.valid = FALSE]

\* new StreamingObject(parent) / new StreamingArray(parent)
StreamingObject ==
  [kind |-> "object", iteratorCalled |-> FALSE, extractedValue |-> NoVal, index |-> 0]
StreamingArray ==
  [kind |-> "array", iteratorCalled |-> FALSE, extractedValue |-> NoVal, index |-> 0]

\* object() and array(): the bracket consumed and the nesting level raised.
enter(p, bracket) ==
  Bind(consumeWhitespace(p), LAMBDA w :
  Throw(assertChar(w.p, bracket), w.p,
  Bind(nextChar(w.p), LAMBDA r : Ok([r.p EXCEPT !.nestingLevel = @ + 1], NoVal))))

object(p) == enter(p, "{")

array(p) == enter(p, "[")

\* A variant of leave that leaves the nesting level as it is.
leaveKeepingLevel(p) == Bind(nextChar(p), LAMBDA r : Ok(r.p, <<"done">>))

\* A variant of leave that also passes the whitespace after the bracket.
leaveTrimming(p) ==
  Bind(nextChar(p), LAMBDA r :
  Bind(consumeWhitespace(r.p), LAMBDA w :
    Ok([w.p EXCEPT !.nestingLevel = @ - 1], <<"done">>)))

\* if (currentChar === "}") { await nextChar(); nestingLevel--; break; }
leave(p) ==
  Bind(nextChar(p), LAMBDA r : Ok([r.p EXCEPT !.nestingLevel = @ - 1], <<"done">>))

\* StreamingObject's generator from the top of its loop to the yield or the
\* break: val is <<"done">> or <<"yield", key>>.
objectIteratorHead(p) ==
  Bind(consumeWhitespace(p), LAMBDA w :
    IF w.p.currentChar = "}" THEN leave(w.p)
    ELSE Bind(string(w.p), LAMBDA key :
         Bind(consumeWhitespace(key.p), LAMBDA w2 :
         Throw(assertChar(w2.p, ":"), w2.p,
         Bind(nextChar(w2.p), LAMBDA r : Ok(r.p, <<"yield", key.val[2]>>))))))

\* StreamingArray's generator from the top of its loop to the yield or the
\* break.
arrayIteratorHead(p) ==
  Bind(consumeWhitespace(p), LAMBDA w :
    IF w.p.currentChar = "]" THEN leave(w.p) ELSE Ok(w.p, <<"yield">>))

\* A variant of iteratorSeparator that does not require the separator.
iteratorSeparatorLenient(p, endChars, joined) ==
  Bind(consumeWhitespace(p), LAMBDA w :
    IF isCurrentChar(w.p, {","}) THEN nextChar(w.p) ELSE Ok(w.p, NoVal))

\* The generators after the skip of an unconsumed value: the separator.
iteratorSeparator(p, endChars, joined) ==
  Bind(consumeWhitespace(p), LAMBDA w :
  Throw(assertCharSet(w.p, endChars, joined), w.p,
    IF isCurrentChar(w.p, {","}) THEN nextChar(w.p) ELSE Ok(w.p, NoVal)))

RECURSIVE value(_)
RECURSIVE skipLoop(_, _)
RECURSIVE objectValueLoop(_, _)
RECURSIVE arrayValueLoop(_, _)

\* while (this.nestingLevel > initialNestingLevel) await this.value();
skipLoop(p, initialNestingLevel) ==
  IF p.nestingLevel > initialNestingLevel
  THEN Bind(value(p), LAMBDA r : skipLoop(r.p, initialNestingLevel))
  ELSE Ok(p, NoVal)

skip(p) == Bind(value(p), LAMBDA r : skipLoop(r.p, r.p.nestingLevel))

\* A variant of skipUnparsed with its test inverted.
skipUnparsedInverted(p, unparsed) == IF unparsed.didParse THEN skip(p) ELSE Ok(p, NoVal)

\* if (!unparsed.didParse) await this.parent.skip();
skipUnparsed(p, unparsed) == IF ~unparsed.didParse THEN skip(p) ELSE Ok(p, NoVal)

\* The generators from the resumption after a yield to the top of the loop.
objectIteratorTail(p, unparsed) ==
  Bind(skipUnparsed(p, unparsed), LAMBDA s :
    iteratorSeparator(s.p, OBJECT_END_CHARS, ",', '}"))

arrayIteratorTail(p, unparsed) ==
  Bind(skipUnparsed(p, unparsed), LAMBDA s :
    iteratorSeparator(s.p, ARRAY_END_CHARS, ",', ']"))

\* UnparsedValue.value on a handle the cursor has just yielded.
UnparsedValue_value(p, h) ==
  With(markAsParsed(h), LAMBDA m :
    IF m.err # NoErr THEN [p |-> p, err |-> m.err, val |-> NoVal, h |-> m.h]
    ELSE With(value(p), LAMBDA r : [p |-> r.p, err |-> r.err, val |-> r.val, h |-> m.h]))

\* result[key] = v on an object held as the sequence of its <<key, value>>
\* properties in insertion order (the order of a JavaScript object whose
\* keys are not integer indices, as the keys of the model are not).
SetKey(result, key, v) ==
  IF \E i \in DOMAIN result : result[i][1] = key
  THEN [i \in DOMAIN result |-> IF result[i][1] = key THEN <<key, v>> ELSE result[i]]
  ELSE Append(result, <<key, v>>)

\* for await (const [key, getValue] of this) result[key] = await getValue.value();
objectValueLoop(p, result) ==
  Bind(objectIteratorHead(p), LAMBDA y :
    IF y.val = <<"done">> THEN Ok(y.p, <<"object", result>>)
    ELSE With(UnparsedValue_value(y.p, UnparsedValue), LAMBDA v :
           IF v.err # NoErr THEN Fail(v.p, v.err)
           ELSE Bind(objectIteratorTail(v.p, v.h), LAMBDA t :
                  objectValueLoop(t.p, SetKey(result, y.val[2], v.val)))))

\* A variant of arrayValueLoop that puts every element at the front of result.
arrayValueLoopUnshift(p, result) ==
  Bind(arrayIteratorHead(p), LAMBDA y :
    IF y.val = <<"done">> THEN Ok(y.p, <<"array", result>>)
    ELSE With(UnparsedValue_value(y.p, UnparsedValue), LAMBDA v :
           IF v.err # NoErr THEN Fail(v.p, v.err)
           ELSE Bind(arrayIteratorTail(v.p, v.h), LAMBDA t :
                  arrayValueLoop(t.p, <<v.val>> \o result))))

\* for await (const [, getValue] of this) result.push(await getValue.value());
arrayValueLoop(p, result) ==
  Bind(arrayIteratorHead(p), LAMBDA y :
    IF y.val = <<"done">> THEN Ok(y.p, <<"array", result>>)
    ELSE With(UnparsedValue_value(y.p, UnparsedValue), LAMBDA v :
           IF v.err # NoErr THEN Fail(v.p, v.err)
           ELSE Bind(arrayIteratorTail(v.p, v.h), LAMBDA t :
                  arrayValueLoop(t.p, Append(result, v.val)))))

\* A variant of iteratorStart that makes its check and does not set
\* iteratorCalled.
iteratorStartUnmarked(c) ==
  IF c.iteratorCalled THEN [err |-> "Iterator can only be called once", c |-> c]
  ELSE [err |-> NoErr, c |-> c]

\* The first statements of the generators: the message of the Error ("" for
\* none) and the cursor after.
iteratorStart(c) ==
  IF c.iteratorCalled THEN [err |-> "Iterator can only be called once", c |-> c]
  ELSE [err |-> NoErr, c |-> [c EXCEPT !.iteratorCalled = TRUE]]

\* The for await loop of StreamingObject.value / StreamingArray.value on the
\* cursor c with the generator started as `it`.
cursorValueLoop(p, c, it) ==
  IF it.err # NoErr THEN [p |-> p, err |-> it.err, val |-> NoVal, c |-> it.c]
  ELSE With(IF c.kind = "object" THEN objectValueLoop(p, <<>>)
            ELSE arrayValueLoop(p, <<>>), LAMBDA r :
         IF r.err # NoErr THEN [p |-> r.p, err |-> r.err, val |-> NoVal, c |-> it.c]
         ELSE [p |-> r.p, err |-> NoErr, val |-> r.val,
               c |-> [it.c EXCEPT !.extractedValue = r.val,
                                  !.index = IF c.kind = "array" THEN Len(r.val[2]) ELSE 0]])

\* StreamingObject.value / StreamingArray.value on the cursor c: the result
\* and the cursor after the call.
cursorValue(p, c) ==
  IF c.iteratorCalled
  THEN [p |-> p, err |-> "Cannot extract value after iterator has been called",
        val |-> NoVal, c |-> c]
  ELSE IF c.extractedValue # NoVal
  THEN [p |-> p, err |-> NoErr, val |-> c.extractedValue, c |-> c]
  ELSE cursorValueLoop(p, c, iteratorStart(c))

\* The result of a cursor method as the result of a parser method.
Result(r) == [p |-> r.p, err |-> r.err, val |-> r.val]

value(p) ==
  Bind(consumeWhitespace(p), LAMBDA w :
  Bind(peekValueType(w.p), LAMBDA valueType :
    CASE valueType.val = "string" -> string(w.p)
      [] valueType.val = "object" ->
           Bind(object(w.p), LAMBDA o : Result(cursorValue(o.p, StreamingObject)))
      [] valueType.val = "array" ->
           Bind(array(w.p), LAMBDA a : Result(cursorValue(a.p, StreamingArray)))
      [] valueType.val = "boolean" -> boolean(w.p)
      [] valueType.val = "null" -> null(w.p)
      [] valueType.val = "number" -> number(w.p)))

\* new StreamingJSON(stream) over the fragments of a source
StreamingJSON(fragments) ==
  [currentChar |-> Null, nestingLevel |-> 0, buffer |-> <<>>, stream |-> fragments,
   coming |-> <<>>, open |-> FALSE, pulls |-> 0]

(***************************************************************************)
(* TextThoughtStateMachine: the splitter of prose and <plan> reasoning     *)
(*                                                                         *)
(* A splitter is the record [buffer, currentId, currentMode] of the        *)
(* object's fields with the calls its dispatcher has received (dispatched) *)
(* and the number of ids generateId has returned (generated): generateId   *)
(* returns a fresh id, the next natural number.                            *)
(***************************************************************************)
OpenTag == <<"<", "p", "l", "a", "n", ">">>
CloseTag == <<"<", "/", "p", "l", "a", "n", ">">>

\* this.currentId = generateId()
generateId(sm) == [sm EXCEPT !.generated = @ + 1, !.currentId = sm.generated + 1]

\* new TextThoughtStateMachine(dispatcher)
TextThoughtStateMachine ==
  generateId([buffer |-> <<>>, currentId |-> 0, currentMode |-> "text",
              dispatched |-> <<>>, generated |-> 0])

\* const targetSequence = this.currentMode === "text" ? "<plan>" : "</plan>"
targetSequence(sm) == IF sm.currentMode = "text" THEN OpenTag ELSE CloseTag

dispatch(sm, content) ==
  [sm EXCEPT !.dispatched =
     Append(@, [type |-> IF sm.currentMode = "text" THEN "APPEND_TEXT"
                         ELSE "APPEND_THOUGHT",
                id |-> sm.currentId, isFromUser |-> FALSE, textDelta |-> content])]

\* if (contentBuffer) this.dispatch(contentBuffer)
dispatchContent(sm, contentBuffer) ==
  IF contentBuffer # <<>> THEN dispatch(sm, contentBuffer) ELSE sm

\* A variant of switchMode that keeps the id of the segment it leaves.
switchModeSameId(sm, newMode) == [sm EXCEPT !.currentMode = newMode]

switchMode(sm, newMode) ==
  IF sm.currentMode = newMode THEN sm
  ELSE generateId([sm EXCEPT !.currentMode = newMode])

\* A variant of keepPartialMatch that keeps the start of the opening marker
\* in either mode.
keepOpeningMatch(sm, sequenceIndex) ==
  [sm EXCEPT !.buffer = SubSeq(OpenTag, 1, sequenceIndex)]

\* A variant of keepPartialMatch that always empties the buffer.
keepNoPartialMatch(sm, sequenceIndex) == [sm EXCEPT !.buffer = <<>>]

\* The end of append(): a partial match at the end stays in the buffer.
keepPartialMatch(sm, sequenceIndex) ==
  [sm EXCEPT !.buffer = IF sequenceIndex > 0
                        THEN SubSeq(targetSequence(sm), 1, sequenceIndex)
                        ELSE <<>>]

\* A variant of unmatched that does not give the matched prefix back.
unmatchedDropping(sm, char, contentBuffer, sequenceIndex) == contentBuffer \o <<char>>

\* contentBuffer after a character that does not continue the match.
unmatched(sm, char, contentBuffer, sequenceIndex) ==
  contentBuffer \o SubSeq(targetSequence(sm), 1, sequenceIndex) \o <<char>>

\* The for loop of append() from the buffer's character i (counted from 1).
RECURSIVE scan(_, _, _, _)
scan(sm, i, contentBuffer, sequenceIndex) ==
  IF i > Len(sm.buffer)
  THEN keepPartialMatch(dispatchContent(sm, contentBuffer), sequenceIndex)
  ELSE IF sm.buffer[i] = targetSequence(sm)[sequenceIndex + 1]
  THEN IF sequenceIndex + 1 = Len(targetSequence(sm))
       THEN With(switchMode(dispatchContent(sm, contentBuffer),
                            IF sm.currentMode = "text" THEN "thought" ELSE "text"),
                 LAMBDA found :
                   scan([found EXCEPT !.buffer = SubSeq(@, i + 1, Len(@))], 1, <<>>, 0))
       ELSE scan(sm, i + 1, contentBuffer, sequenceIndex + 1)
  ELSE scan(sm, i + 1, unmatched(sm, sm.buffer[i], contentBuffer, sequenceIndex), 0)

append(sm, content) == scan([sm EXCEPT !.buffer = @ \o content], 1, <<>>, 0)

\* JSON.stringify of a string none of whose characters needs an escape (the
\* buffer holds the start of a marker): the string between double quotes.
stringify(cs) == "\"" \o Str(cs) \o "\""

\* A variant of reset that does not look at the buffer.
resetUnchecked(sm) ==
  [err |-> NoErr,
   sm |-> [generateId([sm EXCEPT !.currentMode = "text"]) EXCEPT !.buffer = <<>>]]

\* reset(): the message of the Error ("" for none) and the splitter after.
reset(sm) ==
  IF sm.buffer # <<>>
  THEN [err |-> "Buffer was not empty: " \o stringify(sm.buffer), sm |-> sm]
  ELSE [err |-> NoErr,
        sm |-> [generateId([sm EXCEPT !.currentMode = "text"]) EXCEPT !.buffer = <<>>]]

(***************************************************************************)
(* stateReducer: the fold of the application's actions                     *)
(*                                                                         *)
(* An AppState is the record [history, files, projectMetadata]: history a  *)
(* sequence of entries, files a function from the paths in use to File     *)
(* records, projectMetadata a function from keys to values.  Objects are   *)
(* functions from their property names; texts that are cut or appended to  *)
(* are sequences of characters.  An id is a natural number; the id         *)
(* "file-pending", which generateId never returns, is FilePendingId.  The  *)
(* reducer is given the id generateId returns if it is called (newId) and  *)
(* yields [err, state]: immer's produce discards the draft when the recipe *)
(* throws, so that the state is then the one given.                        *)
(***************************************************************************)
FilePendingId == 0
PreviewLength == 120

initialState ==
  [history |-> <<>>, files |-> <<>>, projectMetadata |-> [title |-> "Untitled"]]

\* Object.assign(target, source)
ObjectAssign(target, source) ==
  [k \in DOMAIN target \cup DOMAIN source |->
     IF k \in DOMAIN source THEN source[k] ELSE target[k]]

\* delete object[key]
Delete(obj, key) == [k \in DOMAIN obj \ {key} |-> obj[k]]

\* content.substring(0, 120)
substring(content) ==
  SubSeq(content, 1, IF Len(content) < PreviewLength THEN Len(content) ELSE PreviewLength)

\* history.findLastIndex(test), counted from 1; 0 when no entry passes.
findLastIndex(history, test(_)) ==
  IF \E i \in DOMAIN history : test(history[i])
  THEN CHOOSE i \in DOMAIN history :
         test(history[i]) /\ \A j \in DOMAIN history : j > i => ~test(history[j])
  ELSE 0

\* history.splice(index, 1)
splice(history, index) ==
  SubSeq(history, 1, index - 1) \o SubSeq(history, index + 1, Len(history))

IsPending(entry) == entry.type = "file-pending"

\* A variant of removePendingFileAction that removes nothing.
keepPendingFileAction(draft) == draft

removePendingFileAction(draft) ==
  With(findLastIndex(draft.history, IsPending), LAMBDA pendingIndex :
    IF pendingIndex # 0
    THEN [draft EXCEPT !.history = splice(@, pendingIndex)]
    ELSE draft)

Threw(state, message) == [err |-> message, state |-> state]
Produced(draft) == [err |-> NoErr, state |-> draft]

\* A variant of appendDelta that pushes a new entry for every delta.
pushDelta(state, action, type, isFromUser) ==
  Produced([state EXCEPT !.history =
              Append(@, [id |-> action.id, type |-> type,
                         isFromUser |-> isFromUser, text |-> action.textDelta])])

\* case "APPEND_TEXT" (type "text") and case "APPEND_THOUGHT" (type "thought")
appendDelta(state, action, type, isFromUser) ==
  With(findLastIndex(state.history, LAMBDA entry : entry.id = action.id),
       LAMBDA existingEntryIndex :
    IF existingEntryIndex # 0 /\ state.history[existingEntryIndex].type = type
    THEN Produced([state EXCEPT !.history[existingEntryIndex].text =
                                   @ \o action.textDelta])
    ELSE Produced([state EXCEPT !.history =
                     Append(@, [id |-> action.id, type |-> type,
                                isFromUser |-> isFromUser,
                                text |-> action.textDelta])]))

\* draft.history.push({ type: "file", id: generateId(), ... }) after
\* removePendingFileAction(draft)
pushFile(draft, newId, path, commitMessage, op) ==
  Produced([removePendingFileAction(draft) EXCEPT !.history =
              Append(@, [type |-> "file", id |-> newId, isFromUser |-> FALSE,
                         path |-> path, commitMessage |-> commitMessage,
                         op |-> op])])

createFile(state, action, newId) ==
  IF action.file.path \in DOMAIN state.files
  THEN Threw(state, "File " \o action.file.path \o " already exists")
  ELSE pushFile([state EXCEPT !.files =
                   ObjectAssign(@, [k \in {action.file.path} |-> action.file])],
                newId, action.file.path, action.file.commitMessage,
                [type |-> "create", title |-> action.file.title,
                 preview |-> substring(action.file.content)])

renameFile(state, action, newId) ==
  IF action.oldPath \notin DOMAIN state.files
  THEN Threw(state, "File " \o action.oldPath \o " not found")
  ELSE IF action.newPath \in DOMAIN state.files
  THEN Threw(state, "File " \o action.newPath \o " already exists")
  ELSE pushFile([state EXCEPT !.files =
                   Delete(ObjectAssign(@, [k \in {action.newPath} |->
                                             state.files[action.oldPath]]),
                          action.oldPath)],
                newId, action.oldPath,
                "Renamed " \o action.oldPath \o " to " \o action.newPath,
                [type |-> "rename", newPath |-> action.newPath])

deleteFile(state, action, newId) ==
  IF action.path \notin DOMAIN state.files
  THEN Threw(state, "File " \o action.path \o " not found")
  ELSE pushFile([state EXCEPT !.files = Delete(@, action.path)],
                newId, action.path, action.commitMessage, [type |-> "delete"])

readFile(state, action, newId) ==
  Produced([removePendingFileAction(state) EXCEPT !.history =
              Append(@, [type |-> "file-read", id |-> newId,
                         isFromUser |-> FALSE, path |-> action.path])])

\* The op of an update's history entry: the title is the file's after the
\* update; preview is undefined (left out) when the update has no content.
updateOp(file, update) ==
  IF "content" \in DOMAIN update
  THEN [type |-> "update", title |-> file.title,
        preview |-> substring(update.content)]
  ELSE [type |-> "update", title |-> file.title]

updateFile(state, action, newId) ==
  IF action.file.path \notin DOMAIN state.files
  THEN Threw(state, "File " \o action.file.path \o " not found")
  ELSE With(ObjectAssign(state.files[action.file.path], action.file),
            LAMBDA file :
         pushFile([state EXCEPT !.files[action.file.path] = file],
                  newId, action.file.path, action.file.commitMessage,
                  updateOp(file, action.file)))

updateProjectMetadata(state, action, newId) ==
  Produced([state EXCEPT
              !.projectMetadata = ObjectAssign(@, action.diff),
              !.history = Append(@, [type |-> "metadata", id |-> newId,
                                     isFromUser |-> FALSE, diff |-> action.diff])])

pendingFileAction(state, action) ==
  With(findLastIndex(state.history, IsPending), LAMBDA pendingEntry :
    IF pendingEntry # 0
    THEN IF state.history[pendingEntry].op # action.op
         THEN Threw(state, "Pending entry action " \o state.history[pendingEntry].op
                             \o " does not match action " \o action.op)
         ELSE Produced([state EXCEPT !.history[pendingEntry].paths = action.paths])
    ELSE Produced([state EXCEPT !.history =
                     Append(@, [type |-> "file-pending", id |-> FilePendingId,
                                isFromUser |-> FALSE, op |-> action.op,
                                paths |-> action.paths])]))

stateReducer(state, action, newId) ==
  CASE action.type = "APPEND_TEXT" ->
         appendDelta(state, action, "text", action.isFromUser)
    [] action.type = "APPEND_THOUGHT" -> appendDelta(state, action, "thought", FALSE)
    [] action.type = "CREATE_FILE" -> createFile(state, action, newId)
    [] action.type = "RENAME_FILE" -> renameFile(state, action, newId)
    [] action.type = "DELETE_FILE" -> deleteFile(state, action, newId)
    [] action.type = "READ_FILE" -> readFile(state, action, newId)
    [] action.type = "UPDATE_FILE" -> updateFile(state, action, newId)
    [] action.type = "UPDATE_PROJECT_METADATA" ->
         updateProjectMetadata(state, action, newId)
    [] action.type = "PENDING_FILE_ACTION" -> pendingFileAction(state, action)
    [] OTHER -> Threw(state, "Unexpected object: [object Object]")

(***************************************************************************)
(* syncReducer: the fold and the stream of the actions folded              *)
(*                                                                         *)
(* A synchronized reducer is the record [state, streamableValue, closed,   *)
(* generated]: the state, the actions streamableValue.update was given,    *)
(* whether streamableValue.done was called, and the number of ids          *)
(* generateId has returned.  syncDispatch, the object's dispatch, yields    *)
(* [err, sync].                                                            *)
(***************************************************************************)
syncReducer ==
  [state |-> initialState, streamableValue |-> <<>>, closed |-> FALSE,
   generated |-> 0]

\* A variant of dispatch that updates the stream before it folds.
syncDispatchUpdateFirst(s, action) ==
  With(stateReducer(s.state, action, s.generated + 1), LAMBDA r :
    [err |-> r.err,
     sync |-> [s EXCEPT !.state = r.state,
                        !.streamableValue = Append(@, action),
                        !.generated = IF r.err = NoErr THEN @ + 1 ELSE @]])

\* A variant of dispatch that puts the action at the head of the stream.
syncDispatchPrepending(s, action) ==
  With(stateReducer(s.state, action, s.generated + 1), LAMBDA r :
    IF r.err # NoErr THEN [err |-> r.err, sync |-> s]
    ELSE [err |-> NoErr,
          sync |-> [s EXCEPT !.state = r.state,
                             !.streamableValue = <<action>> \o @,
                             !.generated = @ + 1]])

\* syncReducerObj.state = reducer(syncReducerObj.state, action);
\* streamableValue.update(action); return syncReducerObj.state
syncDispatch(s, action) ==
  With(stateReducer(s.state, action, s.generated + 1), LAMBDA r :
    IF r.err # NoErr THEN [err |-> r.err, sync |-> s]
    ELSE [err |-> NoErr,
          sync |-> [s EXCEPT !.state = r.state,
                             !.streamableValue = Append(@, action),
                             !.generated = @ + 1]])

\* done: () => streamableValue.done()
done(s) == [s EXCEPT !.closed = TRUE]

(***************************************************************************)
(* The splitter as a state machine: a text is appended in fragments        *)
(***************************************************************************)
\* The largest number of append() calls and of reset() calls.
MaxAppends == 3
MaxResets == 1

\* The texts of the model: a<plan>b</plan>c, <<plan>x, <p<plan>t</plan>,
\* x < y <play>, <plan></plan>z, <plan><</plan>x, a</plan>b<plan>, ab<pl,
\* <plan>a</pl>b</plan>, ab<plan>cd.
Texts ==
  { <<"a">> \o OpenTag \o <<"b">> \o CloseTag \o <<"c">>,
    <<"<">> \o OpenTag \o <<"x">>,
    <<"<", "p">> \o OpenTag \o <<"t">> \o CloseTag,
    <<"x", " ", "<", " ", "y", " ", "<", "p", "l", "a", "y", ">">>,
    OpenTag \o CloseTag \o <<"z">>,
    OpenTag \o <<"<">> \o CloseTag \o <<"x">>,
    <<"a">> \o CloseTag \o <<"b">> \o OpenTag,
    <<"a", "b", "<", "p", "l">>,
    OpenTag \o <<"a", "<", "/", "p", "l", ">", "b">> \o CloseTag,
    <<"a", "b">> \o OpenTag \o <<"c", "d">> }

\* The parser's side: the document, the parser, the cursors and the handles
\* the consumer holds, the consumer's last call, and whether a complete
\* top-level value has been read.
VARIABLES doc, json, cursors, handles, last, rootComplete

parserVars == <<doc, json, cursors, handles, last, rootComplete>>

\* stateMachine: the splitter; feed: the text still to be appended, the
\* text appended, the numbers of append() and successful reset() calls made,
\* the last call, its argument, the message of the Error it threw and the
\* splitter before it.
VARIABLES stateMachine, feed

splitVars == <<stateMachine, feed>>

\* sync: the synchronized reducer; owner: the number of dispatch() calls
\* made, the last call, its action, the message of the Error it threw, the
\* synchronized reducer before it, and the actions of the calls that
\* returned.
VARIABLES sync, owner

syncVars == <<sync, owner>>

\* conv: a call of continueConversation: the number of events the model's
\* stream has delivered, the last event, where the call is (in the loop,
\* stopped by an Error thrown in it, or past sync.done()), the Error, and
\* the loop's variables currentToolArgs and currentToolFileOp.
VARIABLES conv
convVars == <<conv>>

NoAction == [type |-> "NONE"]

NoOwner == [dispatches |-> 0, op |-> "new", action |-> NoAction, err |-> NoErr,
            before |-> syncReducer, returned |-> <<>>]

\* A synchronized reducer that is given nothing.
SyncIdle == sync = syncReducer /\ owner = NoOwner

NoFeed == [rest |-> <<>>, appended |-> <<>>, appends |-> 0, resets |-> 0,
           op |-> "new", content |-> <<>>, err |-> NoErr,
           before |-> TextThoughtStateMachine]

Undefined == "<undefined>"

NoConv == [events |-> 0, event |-> [type |-> "none"], at |-> "loop", err |-> NoErr,
           currentToolArgs |-> <<>>, currentToolFileOp |-> Undefined]

\* No call of continueConversation.
ConvIdle == conv = NoConv

\* A splitter that is given nothing.
SplitIdle == stateMachine = TextThoughtStateMachine /\ feed = NoFeed

SplitStart ==
  /\ stateMachine = TextThoughtStateMachine
  /\ feed \in {[NoFeed EXCEPT !.rest = t] : t \in Texts}

\* stateMachine.append(content) with the next n characters of the text
AppendFragment(n) ==
  /\ feed.err = NoErr
  /\ feed.appends < MaxAppends
  /\ stateMachine' = append(stateMachine, SubSeq(feed.rest, 1, n))
  /\ feed' = [feed EXCEPT !.rest = SubSeq(@, n + 1, Len(@)),
                          !.appended = @ \o SubSeq(feed.rest, 1, n),
                          !.appends = @ + 1,
                          !.op = "append", !.content = SubSeq(feed.rest, 1, n),
                          !.before = stateMachine]
  /\ UNCHANGED <<parserVars, syncVars, convVars>>

\* stateMachine.reset()
Reset ==
  /\ feed.err = NoErr
  /\ feed.resets < MaxResets
  /\ \E r \in {reset(stateMachine)} :
       /\ stateMachine' = r.sm
       /\ feed' = [feed EXCEPT !.resets = IF r.err = NoErr THEN @ + 1 ELSE @,
                               !.op = "reset", !.content = <<>>, !.err = r.err,
                               !.before = stateMachine]
  /\ UNCHANGED <<parserVars, syncVars, convVars>>

(***************************************************************************)
(* The consumer and the parser as a state machine                          *)
(***************************************************************************)
\* The largest number of fragments the source delivers a document in.
MaxFragments == 2

\* Texts with malformed structure: {123}, {[}, {"k" 1}, {"a":1 "b":2}, [1 2],
\* and with a comma before the closing bracket: [1,], {"a":1,}.
MalformedStructure ==
  << <<"{", "1", "2", "3", "}">>,
     <<"{", "[", "}">>,
     <<"{", "\"", "k", "\"", " ", "1", "}">>,
     <<"{", "\"", "a", "\"", ":", "1", " ", "\"", "b", "\"", ":", "2", "}">>,
     <<"[", "1", " ", "2", "]">>,
     <<"[", "1", ",", "]">>,
     <<"{", "\"", "a", "\"", ":", "1", ",", "}">> >>

\* Keywords cut short or misspelt: tru, fals, nul, trux, fazse, nxll.
MalformedKeywords ==
  << <<"t", "r", "u">>,
     <<"f", "a", "l", "s">>,
     <<"n", "u", "l">>,
     <<"t", "r", "u", "x">>,
     <<"f", "a", "z", "s", "e">>,
     <<"n", "x", "l", "l">> >>

\* Strings with a bad escape: "a\x", "a\ (the text ends after the
\* backslash), "\u12 (the text ends), "\u00g0", "\u12" (the string ends).
MalformedStrings ==
  << <<"\"", "a", "\\", "x", "\"">>,
     <<"\"", "a", "\\">>,
     <<"\"", "\\", "u", "1", "2">>,
     <<"\"", "\\", "u", "0", "0", "g", "0", "\"">>,
     <<"\"", "\\", "u", "1", "2", "\"">> >>

\* Numbers followed by more, or too large: 123.45.67, 123e4e5, 1.x, 2e+, 7x,
\* 1e999, 01, -012.
OddNumbers ==
  << <<"1", "2", "3", ".", "4", "5", ".", "6", "7">>,
     <<"1", "2", "3", "e", "4", "e", "5">>,
     <<"1", ".", "x">>,
     <<"2", "e", "+">>,
     <<"7", "x">>,
     <<"1", "e", "9", "9", "9">>,
     <<"0", "1">>,
     <<"-", "0", "1", "2">> >>

\* The documents of the model: true, -12.5e+1, "a\nA", [1,[2],"s"],
\* {"a":1,"b":[0]}, ` { "k" : {} }`, two texts with a second root value,
\* `1 2` and `{}[]`, three values after a character that /\s/ matches
\* and JSON does not take for whitespace (a form feed before 1, U+000B
\* before true, U+00A0 before "s"), the malformed texts, {"a": 1, "b": 2}
\* and [[],1].
Docs ==
  << <<"t", "r", "u", "e">>,
     <<"-", "1", "2", ".", "5", "e", "+", "1">>,
     <<"\"", "a", "\\", "n", "\\", "u", "0", "0", "4", "1", "\"">>,
     <<"[", "1", ",", "[", "2", "]", ",", "\"", "s", "\"", "]">>,
     <<"{", "\"", "a", "\"", ":", "1", ",", "\"", "b", "\"", ":", "[", "0", "]", "}">>,
     <<" ", "{", " ", "\"", "k", "\"", " ", ":", " ", "{", "}", " ", "}">>,
     <<"1", " ", "2">>,
     <<"{", "}", "[", "]">>,
     <<"\f", "1">>,
     <<"<VT>", "t", "r", "u", "e">>,
     <<"<NBSP>", "\"", "s", "\"">> >>
  \o MalformedStructure \o MalformedKeywords \o MalformedStrings \o OddNumbers
  \o << <<"{", "\"", "a", "\"", ":", " ", "1", ",", " ", "\"", "b", "\"", ":", " ", "2", "}">>,
        <<"[", "[", "]", ",", "1", "]">> >>

\* The well-formed JSON documents among them.
WellFormed == {Docs[i] : i \in (1..6) \cup {Len(Docs) - 1, Len(Docs)}}

\* Every partition of d into at most n non-empty fragments.
RECURSIVE Splits(_, _)
Splits(d, n) ==
  IF n <= 1 \/ Len(d) <= 1 THEN {<<d>>}
  ELSE {<<d>>} \cup
       UNION { { <<SubSeq(d, 1, i)>> \o rest :
                   rest \in Splits(SubSeq(d, i + 1, Len(d)), n - 1) } :
               i \in 1..(Len(d) - 1) }

vars == <<parserVars, splitVars, syncVars, convVars>>

\* What the consumer's last call was: the method (op), the kind and index of
\* the object it was called on, the Error it threw, the value it returned,
\* and the state before it: the parser, rootComplete, the flags of the handle
\* or cursor it was called on, whether the cursor of the handle had advanced
\* past it, the reader that had consumed the handle and the cursor's generator.
NoPre == [didParse |-> FALSE, valid |-> FALSE, passed |-> FALSE, readBy |-> "none",
          iteratorCalled |-> FALSE, extracted |-> FALSE, gen |-> "none",
          rootComplete |-> FALSE, nextPending |-> FALSE]
Call(op, on, id, r, pre) ==
  [op |-> op, on |-> on, id |-> id, err |-> r.err, val |-> r.val,
   before |-> json, pre |-> [pre EXCEPT !.rootComplete = rootComplete]]
HandlePre(h) ==
  [NoPre EXCEPT !.didParse = h.didParse, !.valid = h.valid, !.readBy = h.readBy,
                !.passed = (cursors[h.cursor].passed >= h.ord)]
CursorPre(c) ==
  [NoPre EXCEPT !.iteratorCalled = c.iteratorCalled, !.gen = c.gen,
                !.extracted = (c.extractedValue # NoVal)]

\* A cursor the consumer holds: the fields of the class, the state of the
\* generator the consumer pulls (fresh, suspended at its yield, or done),
\* the handle it yielded last, and a record of the walk: the parser before
\* the object()/array() call that made the cursor, whether that call was a
\* root-level one, the keys / indices yielded, the number of handles the
\* cursor has invalidated, for every handle the generator was resumed from
\* the reader that had consumed it and the value read, and whether the
\* parser was advanced by a call other than a pull of this cursor or a read
\* through one of its handles.
NewCursor(class, origin) ==
  [kind |-> class.kind, iteratorCalled |-> class.iteratorCalled,
   extractedValue |-> class.extractedValue, index |-> class.index,
   gen |-> "fresh", unparsed |-> 0, origin |-> origin,
   root |-> (origin.nestingLevel = 0), keys |-> <<>>, passed |-> 0,
   reads |-> <<>>, got |-> <<>>, foreign |-> FALSE]

\* A handle the consumer holds: the fields of the class, the cursor that
\* yielded it, its number among the handles of that cursor, and the reader
\* that consumed it with the value read.
NewHandle(c, ord) ==
  [didParse |-> FALSE, valid |-> TRUE, cursor |-> c, ord |-> ord,
   readBy |-> "none", val |-> NoVal]

\* The cursors cs after a call that left the parser as p: a call that
\* advanced the parser is foreign to every cursor but own.
Foreign(cs, p, own) ==
  [i \in DOMAIN cs |->
     IF p # json /\ i # own THEN [cs[i] EXCEPT !.foreign = TRUE] ELSE cs[i]]

Init ==
  /\ doc \in {Docs[i] : i \in 1..Len(Docs)}
  /\ json \in {StreamingJSON(f) : f \in Splits(doc, MaxFragments)}
  /\ cursors = <<>>
  /\ handles = <<>>
  /\ last = [op |-> "new", on |-> "json", id |-> 0, err |-> NoErr, val |-> NoVal,
             before |-> json, pre |-> NoPre]
  /\ rootComplete = FALSE
  /\ SplitIdle
  /\ SyncIdle
  /\ ConvIdle

\* An Error thrown by a call ends the consumer: it makes no call after it.
Running == last.err \in {NoErr, Awaiting}

ReadOps == {"value", "string", "number", "boolean", "null", "stringChunks"}
EnterOps == {"object", "array"}

Read(op, p) ==
  CASE op = "value" -> value(p)
    [] op = "string" -> string(p)
    [] op = "number" -> number(p)
    [] op = "boolean" -> boolean(p)
    [] op = "null" -> null(p)
    [] op = "stringChunks" -> stringChunks(p)
    [] op = "skip" -> skip(p)
    [] op = "object" -> object(p)
    [] op = "array" -> array(p)

\* The class of the cursor object() / array() returns.
Class(op) == IF op = "object" THEN StreamingObject ELSE StreamingArray

\* json.value(), json.string(), ..., json.skip(); stringChunks is drained.
JsonRead(op) ==
  /\ Running
  /\ \E r \in {Read(op, json)} :
       /\ json' = r.p
       /\ last' = Call(op, "json", 0, r, NoPre)
       /\ rootComplete' = (rootComplete \/ (r.err = NoErr /\ json.nestingLevel = 0))
       /\ cursors' = Foreign(cursors, r.p, 0)
  /\ UNCHANGED <<doc, handles, splitVars, syncVars, convVars>>

\* json.object(), json.array()
JsonEnter(op) ==
  /\ Running
  /\ \E r \in {Read(op, json)} :
       /\ json' = r.p
       /\ last' = Call(op, "json", 0, r, NoPre)
       /\ cursors' = IF r.err = NoErr
                     THEN Append(Foreign(cursors, r.p, 0), NewCursor(Class(op), json))
                     ELSE Foreign(cursors, r.p, 0)
  /\ UNCHANGED <<doc, handles, rootComplete, splitVars, syncVars, convVars>>

\* cursor.value()
CursorValue(c) ==
  /\ Running
  /\ \E r \in {cursorValue(json, cursors[c])} :
       /\ json' = r.p
       /\ last' = Call("value", "cursor", c, r, CursorPre(cursors[c]))
       /\ cursors' = Foreign([cursors EXCEPT ![c] =
                                [@ EXCEPT !.iteratorCalled = r.c.iteratorCalled,
                                          !.extractedValue = r.c.extractedValue,
                                          !.index = r.c.index]], r.p, c)
       /\ rootComplete' = (rootComplete \/ (r.err = NoErr /\ cursors[c].root))
  /\ UNCHANGED <<doc, handles, splitVars, syncVars, convVars>>

\* The generator of cursor c run from the top of its loop on the parser p
\* for the consumer's call op, the cursor being cur and the handles hs.
RunHead(c, op, cur, hs, p) ==
  \E y \in {IF cur.kind = "object" THEN objectIteratorHead(p) ELSE arrayIteratorHead(p)} :
    /\ json' = y.p
    /\ last' = Call(op, "cursor", c, y, CursorPre(cursors[c]))
    /\ IF y.err # NoErr \/ y.val = <<"done">>
       THEN /\ cursors' = Foreign([cursors EXCEPT ![c] = [cur EXCEPT !.gen = "done"]], y.p, c)
            /\ handles' = hs
            /\ rootComplete' = (rootComplete \/ (y.err = NoErr /\ cur.root))
       ELSE /\ cursors' = Foreign([cursors EXCEPT ![c] =
                             [cur EXCEPT !.gen = "suspended",
                                         !.unparsed = Len(hs) + 1,
                                         !.keys = Append(@, IF cur.kind = "object"
                                                            THEN y.val[2] ELSE cur.index)]],
                                  y.p, c)
            /\ handles' = Append(hs, NewHandle(c, Len(cur.keys) + 1))
            /\ UNCHANGED rootComplete

\* The first next() on a generator of cursor c, as the consumer's call op.
StartGenerator(c, op) ==
  \E s \in {iteratorStart(cursors[c])} :
    IF s.err # NoErr
    THEN /\ last' = Call(op, "cursor", c, Fail(json, s.err), CursorPre(cursors[c]))
         /\ cursors' = [cursors EXCEPT ![c].gen = IF @ = "fresh" THEN "done" ELSE @]
         /\ UNCHANGED <<json, handles, rootComplete>>
    ELSE RunHead(c, op, [cursors[c] EXCEPT !.iteratorCalled = s.c.iteratorCalled],
                 handles, json)

\* The cursor cur resumed from the yield of the handle h: the index counted
\* and the walk recorded.
Resumed(cur, h) ==
  [cur EXCEPT !.index = IF cur.kind = "array" THEN @ + 1 ELSE @,
              !.reads = Append(@, h.readBy),
              !.got = Append(@, h.val)]

\* next() on the generator of cursor c suspended at the yield of handle h.
ResumeGenerator(c, cur, h) ==
  \E s \in {skipUnparsed(json, handles[h])} :
    IF s.err # NoErr
    THEN /\ json' = s.p
         /\ last' = Call("next", "cursor", c, s, CursorPre(cur))
         /\ cursors' = Foreign([cursors EXCEPT ![c] = [cur EXCEPT !.gen = "done"]], s.p, c)
         /\ UNCHANGED <<handles, rootComplete>>
    ELSE \E t \in {iteratorSeparator(s.p,
                     IF cur.kind = "object" THEN OBJECT_END_CHARS ELSE ARRAY_END_CHARS,
                     IF cur.kind = "object" THEN ",', '}" ELSE ",', ']")} :
           IF t.err # NoErr
           THEN /\ json' = t.p
                /\ last' = Call("next", "cursor", c, t, CursorPre(cursors[c]))
                /\ cursors' = Foreign([cursors EXCEPT ![c] =
                                  [cur EXCEPT !.gen = "done", !.passed = @ + 1]], t.p, c)
                /\ handles' = [handles EXCEPT ![h] = invalidate(@)]
                /\ UNCHANGED rootComplete
           ELSE RunHead(c, "next", [cur EXCEPT !.passed = @ + 1],
                        [handles EXCEPT ![h] = invalidate(@)], t.p)

\* iterator.next() on the generator the consumer took from cursor c.
CursorNext(c) ==
  /\ Running
  /\ cursors[c].gen \in {"fresh", "suspended"}
  /\ UNCHANGED <<doc, splitVars, syncVars, convVars>>
  /\ IF cursors[c].gen = "fresh"
     THEN StartGenerator(c, "next")
     ELSE ResumeGenerator(c, Resumed(cursors[c], handles[cursors[c].unparsed]),
                          cursors[c].unparsed)

\* Another cursor[Symbol.asyncIterator]() after the consumer's first
\* generator has been pulled, and the first next() on it.
CursorIterateAgain(c) ==
  /\ Running
  /\ cursors[c].gen # "fresh"
  /\ UNCHANGED <<doc, splitVars, syncVars, convVars>>
  /\ StartGenerator(c, "iterate")

\* A method of UnparsedValue on the handle h: markAsParsed, then the
\* parent's method.
UnparsedRead(h, op) ==
  With(markAsParsed(h), LAMBDA m :
    IF m.err # NoErr
    THEN [p |-> json, err |-> m.err, val |-> NoVal, h |-> m.h, called |-> FALSE]
    ELSE With(Read(op, json), LAMBDA r :
           [p |-> r.p, err |-> r.err, val |-> r.val, h |-> m.h, called |-> TRUE]))

\* The handle after the call that returned r: the handle markAsParsed left
\* and, when the parent's method was called, the record of the reader and of
\* the value read.
Consumed(r, op) ==
  IF ~r.called THEN r.h
  ELSE [r.h EXCEPT !.readBy = IF r.err = NoErr THEN op ELSE "failed",
              !.val = IF op \in {"stringChunks", "object", "array"}
                      THEN NoVal ELSE r.val]

\* handle.value(), handle.string(), ...; stringChunks is drained.
HandleRead(h, op) ==
  /\ Running
  /\ \E r \in {UnparsedRead(handles[h], op)} :
       /\ json' = r.p
       /\ last' = Call(op, "handle", h, r, HandlePre(handles[h]))
       /\ handles' = [handles EXCEPT ![h] = Consumed(r, op)]
       /\ cursors' = Foreign(cursors, r.p, handles[h].cursor)
  /\ UNCHANGED <<doc, rootComplete, splitVars, syncVars, convVars>>

\* handle.object(), handle.array()
HandleEnter(h, op) ==
  /\ Running
  /\ \E r \in {UnparsedRead(handles[h], op)} :
       /\ json' = r.p
       /\ last' = Call(op, "handle", h, r, HandlePre(handles[h]))
       /\ handles' = [handles EXCEPT ![h] = Consumed(r, op)]
       /\ cursors' = IF r.err = NoErr
                     THEN Append(Foreign(cursors, r.p, handles[h].cursor),
                                 NewCursor(Class(op), json))
                     ELSE Foreign(cursors, r.p, handles[h].cursor)
  /\ UNCHANGED <<doc, rootComplete, splitVars, syncVars, convVars>>

\* handle.peekValueType()
HandlePeek(h) ==
  /\ Running
  /\ last' = Call("peekValueType", "handle", h, peekValueType(json), HandlePre(handles[h]))
  /\ UNCHANGED <<doc, json, cursors, handles, rootComplete, splitVars, syncVars, convVars>>

Next ==
  \/ \E op \in ReadOps \cup {"skip"} : JsonRead(op)
  \/ \E op \in EnterOps : JsonEnter(op)
  \/ \E c \in DOMAIN cursors : CursorValue(c)
  \/ \E c \in DOMAIN cursors : CursorNext(c)
  \/ \E c \in DOMAIN cursors : CursorIterateAgain(c)
  \/ \E h \in DOMAIN handles : \E op \in ReadOps : HandleRead(h, op)
  \/ \E h \in DOMAIN handles : \E op \in EnterOps : HandleEnter(h, op)
  \/ \E h \in DOMAIN handles : HandlePeek(h)

Spec == Init /\ [][Next]_vars

\* The splitter fed a text, the parser given the first document and not used.
\* A parser that is asked nothing.
ParserIdle ==
  /\ doc = Docs[1]
  /\ json = StreamingJSON(<<doc>>)
  /\ cursors = <<>>
  /\ handles = <<>>
  /\ last = [op |-> "new", on |-> "json", id |-> 0, err |-> NoErr, val |-> NoVal,
             before |-> json, pre |-> NoPre]
  /\ rootComplete = FALSE

InitSplit == SplitStart /\ ParserIdle /\ SyncIdle /\ ConvIdle

NextSplit ==
  \/ \E n \in 0..Len(feed.rest) : AppendFragment(n)
  \/ Reset

SpecSplit == InitSplit /\ [][NextSplit]_vars

(***************************************************************************)
(* The synchronized reducer as a state machine: its owner dispatches       *)
(* actions and then calls done(), after which it dispatches nothing.       *)
(***************************************************************************)
\* The largest number of dispatch() calls.
MaxDispatches == 3

Paths == {"p", "q"}

File(path) ==
  [path |-> path, title |-> "T", content |-> <<"c">>, commitMessage |-> "m"]

\* The actions of the model's owner.
Actions ==
  {[type |-> "APPEND_TEXT", id |-> i, isFromUser |-> FALSE, textDelta |-> <<"a">>] :
     i \in {101, 102}}
  \cup {[type |-> "APPEND_THOUGHT", id |-> 101, textDelta |-> <<"b">>]}
  \cup {[type |-> "CREATE_FILE", file |-> File(path)] : path \in Paths}
  \cup {[type |-> "UPDATE_FILE",
         file |-> [path |-> "p", commitMessage |-> "u", title |-> "U"]],
        [type |-> "UPDATE_FILE",
         file |-> [path |-> "q", commitMessage |-> "u", content |-> <<"d">>]]}
  \cup {[type |-> "RENAME_FILE", oldPath |-> "p", newPath |-> "q"],
        [type |-> "RENAME_FILE", oldPath |-> "q", newPath |-> "p"]}
  \cup {[type |-> "DELETE_FILE", path |-> path, commitMessage |-> "x"] :
          path \in Paths}
  \cup {[type |-> "READ_FILE", path |-> "p"]}
  \cup {[type |-> "UPDATE_PROJECT_METADATA", diff |-> [title |-> "N"]]}
  \cup {[type |-> "PENDING_FILE_ACTION", op |-> "create", paths |-> <<>>],
        [type |-> "PENDING_FILE_ACTION", op |-> "create", paths |-> <<"p">>],
        [type |-> "PENDING_FILE_ACTION", op |-> "update", paths |-> <<"p">>]}

\* sync.dispatch(action)
Dispatch(action) ==
  /\ ~sync.closed
  /\ owner.dispatches < MaxDispatches
  /\ \E r \in {syncDispatch(sync, action)} :
       /\ sync' = r.sync
       /\ owner' = [dispatches |-> owner.dispatches + 1, op |-> "dispatch",
                    action |-> action, err |-> r.err, before |-> sync,
                    returned |-> IF r.err = NoErr
                                 THEN Append(owner.returned, action)
                                 ELSE owner.returned]
  /\ UNCHANGED <<parserVars, splitVars, convVars>>

\* sync.done()
Done ==
  /\ ~sync.closed
  /\ sync' = done(sync)
  /\ owner' = [owner EXCEPT !.op = "done", !.action = NoAction, !.err = NoErr,
                            !.before = sync]
  /\ UNCHANGED <<parserVars, splitVars, convVars>>

InitSync == SyncIdle /\ ParserIdle /\ SplitIdle /\ ConvIdle

NextSync ==
  \/ \E action \in Actions : Dispatch(action)
  \/ Done

SpecSync == InitSync /\ [][NextSync]_vars

(***************************************************************************)
(* continueConversation: the loop over the model's event stream            *)
(*                                                                         *)
(* The call dispatches the user's input, makes a splitter whose dispatcher *)
(* is the synchronized reducer, and handles the events of fullStream one   *)
(* by one; after the last it calls sync.done().  An Error thrown in the    *)
(* loop rejects the promise of ai(), which nothing awaits: the call is     *)
(* stopped there.  The tools' execute callbacks are run by streamText      *)
(* between the tool-call and the tool-result event of a tool; a tool whose *)
(* execute throws gets no tool-result.  generateId never returns an id     *)
(* twice: the ids of the user's input and of the splitter start at 100,    *)
(* those of the reducer at 1.                                              *)
(***************************************************************************)
\* The largest number of events of the stream.
MaxEvents == 4

\* The text deltas of the model's streams: `a<`, `plan>b`, `c`.
TextDeltas == { <<"a", "<">>, <<"p", "l", "a", "n", ">", "b">>, <<"c">> }

\* The tools of the model's streams.
ToolNames == {"createFile", "updateFile", "updateMetadata"}

\* The op of the pending file action of a tool; Undefined for the others.
toolOp(toolName) ==
  CASE toolName = "createFile" -> "create"
    [] toolName = "updateFile" -> "update"
    [] toolName = "renameFile" -> "rename"
    [] toolName = "deleteFile" -> "delete"
    [] toolName = "readFile" -> "read"
    [] OTHER -> Undefined

\* The dispatcher of the splitter is sync: the deltas the splitter
\* dispatched in a call are dispatched to sync in order.
RECURSIVE dispatchAll(_, _)
dispatchAll(s, actions) ==
  IF actions = <<>> THEN [err |-> NoErr, sync |-> s]
  ELSE With(syncDispatch(s, Head(actions)), LAMBDA r :
         IF r.err # NoErr THEN r ELSE dispatchAll(r.sync, Tail(actions)))

\* execute of the tool toolName on the file p (createFile: a new file;
\* updateFile: a new title, no newPath; updateMetadata: a new title of the
\* project): the Error it throws, and sync after it.
execute(s, toolName) ==
  CASE toolName = "createFile" ->
         IF "p" \in DOMAIN s.state.files
         THEN [err |-> "File p already exists", sync |-> s]
         ELSE syncDispatch(s, [type |-> "CREATE_FILE", file |-> File("p")])
    [] toolName = "updateFile" ->
         IF "p" \notin DOMAIN s.state.files
         THEN [err |-> "File p not found", sync |-> s]
         ELSE syncDispatch(s, [type |-> "UPDATE_FILE",
                               file |-> [s.state.files["p"] EXCEPT
                                           !.title = "U", !.commitMessage = "u"]])
    [] OTHER ->
         syncDispatch(s, [type |-> "UPDATE_PROJECT_METADATA", diff |-> [title |-> "N"]])

\* The call after the event e was handled, or after err was thrown in
\* handling it.
Handled(e, err) ==
  [conv EXCEPT !.events = @ + 1, !.event = e, !.err = err,
               !.at = IF err = NoErr THEN "loop" ELSE "thrown"]

\* continueConversation(initialState, input) up to the loop.
InitConv ==
  /\ ParserIdle
  /\ feed = NoFeed
  /\ owner = NoOwner
  /\ conv = NoConv
  /\ sync = syncDispatch(syncReducer,
                         [type |-> "APPEND_TEXT", id |-> 100, isFromUser |-> TRUE,
                          textDelta |-> <<"h", "i">>]).sync
  /\ stateMachine = [TextThoughtStateMachine EXCEPT !.generated = 101,
                                                    !.currentId = 101]

\* case "text-delta"
TextDelta(textDelta) ==
  /\ conv.at = "loop" /\ conv.events < MaxEvents
  /\ \E sm \in {append(stateMachine, textDelta)} :
     \E d \in {dispatchAll(sync, SubSeq(sm.dispatched, Len(stateMachine.dispatched) + 1,
                                        Len(sm.dispatched)))} :
       /\ stateMachine' = sm
       /\ sync' = d.sync
       /\ conv' = Handled([type |-> "text-delta", textDelta |-> textDelta], d.err)
  /\ UNCHANGED <<parserVars, feed, owner>>

\* case "tool-call-streaming-start"
ToolCallStreamingStart(toolName) ==
  /\ conv.at = "loop" /\ conv.events < MaxEvents
  /\ \E e \in {[type |-> "tool-call-streaming-start", toolName |-> toolName]} :
     \E r \in {reset(stateMachine)} :
       /\ stateMachine' = r.sm
       /\ IF r.err # NoErr
          THEN conv' = Handled(e, r.err) /\ UNCHANGED sync
          ELSE IF toolOp(toolName) = Undefined
          THEN conv' = Handled(e, NoErr) /\ UNCHANGED sync
          ELSE IF conv.currentToolArgs # <<>>
          THEN conv' = Handled(e, "Tool call already started") /\ UNCHANGED sync
          ELSE \E d \in {syncDispatch(sync, [type |-> "PENDING_FILE_ACTION",
                                            op |-> toolOp(toolName), paths |-> <<>>])} :
                 conv' = Handled(e, d.err) /\ sync' = d.sync
  /\ UNCHANGED <<parserVars, feed, owner>>

\* case "tool-call-delta"; path is the path that parse(currentToolArgs)
\* gives with the delta, Undefined for none.
ToolCallDelta(argsTextDelta, path) ==
  /\ conv.at = "loop" /\ conv.events < MaxEvents
  /\ \E e \in {[type |-> "tool-call-delta", argsTextDelta |-> argsTextDelta]} :
       IF conv.currentToolFileOp # Undefined
       THEN \E d \in {IF path = Undefined THEN [err |-> NoErr, sync |-> sync]
                      ELSE syncDispatch(sync, [type |-> "PENDING_FILE_ACTION",
                                               op |-> conv.currentToolFileOp,
                                               paths |-> <<path>>])} :
              /\ conv' = [Handled(e, d.err) EXCEPT
                            !.currentToolArgs = @ \o argsTextDelta]
              /\ sync' = d.sync
       ELSE conv' = Handled(e, NoErr) /\ UNCHANGED sync
  /\ UNCHANGED <<parserVars, stateMachine, feed, owner>>

\* case "tool-call"
ToolCall(toolName) ==
  /\ conv.at = "loop" /\ conv.events < MaxEvents
  /\ conv' = [Handled([type |-> "tool-call", toolName |-> toolName], NoErr) EXCEPT
                !.currentToolArgs = <<>>, !.currentToolFileOp = Undefined]
  /\ UNCHANGED <<parserVars, stateMachine, sync, feed, owner>>

\* The tool's execute has returned, and case "tool-result".
ToolResult(toolName) ==
  /\ conv.at = "loop" /\ conv.events < MaxEvents
  /\ execute(sync, toolName).err = NoErr
  /\ \E r \in {reset(stateMachine)} :
       /\ stateMachine' = r.sm
       /\ sync' = execute(sync, toolName).sync
       /\ conv' = Handled([type |-> "tool-result", toolName |-> toolName], r.err)
  /\ UNCHANGED <<parserVars, feed, owner>>

\* The stream ends: sync.done()
StreamEnd ==
  /\ conv.at = "loop"
  /\ sync' = done(sync)
  /\ conv' = [conv EXCEPT !.at = "done"]
  /\ UNCHANGED <<parserVars, stateMachine, feed, owner>>

NextConv ==
  \/ \E textDelta \in TextDeltas : TextDelta(textDelta)
  \/ \E toolName \in ToolNames : ToolCallStreamingStart(toolName)
  \/ \E path \in {Undefined, "p"} : ToolCallDelta(<<"{">>, path)
  \/ \E toolName \in ToolNames : ToolCall(toolName)
  \/ \E toolName \in ToolNames : ToolResult(toolName)
  \/ StreamEnd

SpecConv == InitConv /\ [][NextConv]_vars

(***************************************************************************)
(* The parser over a source that is awaited                                *)
(*                                                                         *)
(* The source delivers a fragment, or ends, only while a call of the       *)
(* consumer is suspended at `await this.stream.next()`.  A suspended call  *)
(* has changed nothing of the parser that later steps can see but what is  *)
(* recorded here (a handle marked as parsed, a generator started, a handle *)
(* invalidated): it is deterministic, so that running it again from where  *)
(* it began, once the source has delivered more, is what resuming it does. *)
(* The consumer here reads the document with one reader at a time: it      *)
(* calls the parser's readers until it holds a cursor, and reads through a *)
(* handle that is valid and not consumed; the one misuse it commits is the *)
(* read through a handle while next() is suspended.                        *)
(***************************************************************************)
\* The documents read from an awaited source: -12.5e+1, "a\nA",
\* [1,[2],"s"] and 1 2.
AwaitDocs == {Docs[2], Docs[3], Docs[4], Docs[7]}

\* The fragment sequence f and f with one empty fragment put in anywhere.
Gaps(f) ==
  {f} \cup {SubSeq(f, 1, i) \o << <<>> >> \o SubSeq(f, i + 1, Len(f)) : i \in 0..Len(f)}

\* What a read does to the parser when a suspended skip() holds it: the
\* read and the skip both await the source, and what either of them gets is
\* not determined.
Interleaved == "<interleaved with the automatic skip>"

InitAwait ==
  /\ doc \in AwaitDocs
  /\ json \in {[StreamingJSON(<<>>) EXCEPT !.coming = g, !.open = TRUE] :
                 g \in UNION {Gaps(f) : f \in Splits(doc, MaxFragments)}}
  /\ cursors = <<>>
  /\ handles = <<>>
  /\ last = [op |-> "new", on |-> "json", id |-> 0, err |-> NoErr, val |-> NoVal,
             before |-> json, pre |-> NoPre]
  /\ rootComplete = FALSE
  /\ SplitIdle
  /\ SyncIdle
  /\ ConvIdle

\* The call op on the object (on, id) is suspended.
IsSuspended(op, on, id) ==
  last.err = Awaiting /\ last.op = op /\ last.on = on /\ last.id = id

\* The consumer may begin a call, or the suspended call (op, on, id) may go on.
MayRun(op, on, id) ==
  \/ last.err = NoErr
  \/ IsSuspended(op, on, id)

\* The record of a call that is suspended, with what is known of it (val).
Suspended(op, on, id, val, pre) ==
  [Call(op, on, id, Fail(json, Awaiting), pre) EXCEPT !.val = val]

\* What is known of the suspended call that gave r: of stringChunks the
\* chunks yielded and the chunk decoded and not yielded.
Known(op, r) ==
  IF op = "stringChunks" THEN <<"suspended", r.val, r.held>> ELSE <<"suspended">>

\* The source resolves the pending stream.next() with its next fragment.
Deliver ==
  /\ last.err = Awaiting
  /\ json.coming # <<>>
  /\ json' = [json EXCEPT !.stream = Append(@, Head(json.coming)),
                          !.coming = Tail(@)]
  /\ UNCHANGED <<doc, cursors, handles, last, rootComplete, splitVars, syncVars, convVars>>

\* The source ends: stream.next() resolves with done, whatever was to come.
End ==
  /\ last.err = Awaiting
  /\ json.open
  /\ json' = [json EXCEPT !.open = FALSE, !.coming = <<>>]
  /\ UNCHANGED <<doc, cursors, handles, last, rootComplete, splitVars, syncVars, convVars>>

\* json.value(), json.string(), ..., json.skip(), begun or gone on with.
AwaitJsonRead(op) ==
  /\ MayRun(op, "json", 0)
  /\ cursors = <<>>
  /\ IF Read(op, json).err = Awaiting
     THEN /\ last' = Suspended(op, "json", 0, Known(op, Read(op, json)), NoPre)
          /\ UNCHANGED <<doc, json, cursors, handles, rootComplete, splitVars, syncVars, convVars>>
     ELSE JsonRead(op)

\* json.object(), json.array(), begun or gone on with.
AwaitJsonEnter(op) ==
  /\ MayRun(op, "json", 0)
  /\ cursors = <<>>
  /\ IF Read(op, json).err = Awaiting
     THEN /\ last' = Suspended(op, "json", 0, <<"suspended">>, NoPre)
          /\ UNCHANGED <<doc, json, cursors, handles, rootComplete, splitVars, syncVars, convVars>>
     ELSE JsonEnter(op)

\* Where next() on the generator of cursor c is suspended: at the head of
\* the loop before the first yield ("start"), in the skip() of the handle
\* yielded last ("skip"), after that handle was invalidated ("tail"), or
\* nowhere: the call returns or throws ("none").
Stage(c) ==
  IF cursors[c].gen = "suspended"
  THEN With(skipUnparsed(json, handles[cursors[c].unparsed]), LAMBDA s :
         IF s.err = Awaiting THEN "skip"
         ELSE IF s.err # NoErr THEN "none"
         ELSE With(IF cursors[c].kind = "object"
                   THEN Bind(iteratorSeparator(s.p, OBJECT_END_CHARS, ",', '}"),
                             LAMBDA t : objectIteratorHead(t.p))
                   ELSE Bind(iteratorSeparator(s.p, ARRAY_END_CHARS, ",', ']"),
                             LAMBDA t : arrayIteratorHead(t.p)),
                   LAMBDA y : IF y.err = Awaiting THEN "tail" ELSE "none"))
  ELSE IF cursors[c].gen = "fresh" /\ iteratorStart(cursors[c]).err # NoErr
  THEN "none"
  ELSE IF (IF cursors[c].kind = "object" THEN objectIteratorHead(json)
           ELSE arrayIteratorHead(json)).err = Awaiting
  THEN "start"
  ELSE "none"

\* iterator.next() on the generator of cursor c, begun or gone on with.
AwaitCursorNext(c) ==
  /\ MayRun("next", "cursor", c)
  /\ cursors[c].gen \in {"fresh", "started", "suspended"}
  /\ CASE Stage(c) = "none" /\ cursors[c].gen = "started" ->
            /\ RunHead(c, "next", cursors[c], handles, json)
            /\ UNCHANGED <<doc, splitVars, syncVars, convVars>>
       [] Stage(c) = "none" /\ cursors[c].gen # "started" -> CursorNext(c)
       [] Stage(c) = "start" ->
            /\ cursors' = [cursors EXCEPT ![c].gen = "started",
                                          ![c].iteratorCalled = TRUE]
            /\ last' = Suspended("next", "cursor", c, <<"suspended", "start">>,
                                 CursorPre(cursors[c]))
            /\ UNCHANGED <<doc, json, handles, rootComplete, splitVars, syncVars, convVars>>
       [] Stage(c) = "skip" ->
            /\ last' = Suspended("next", "cursor", c, <<"suspended", "skip">>,
                                 CursorPre(cursors[c]))
            /\ UNCHANGED <<doc, json, cursors, handles, rootComplete, splitVars, syncVars, convVars>>
       [] Stage(c) = "tail" ->
            /\ handles' = [handles EXCEPT ![cursors[c].unparsed] = invalidate(@)]
            /\ last' = Suspended("next", "cursor", c, <<"suspended", "tail">>,
                                 CursorPre(cursors[c]))
            /\ UNCHANGED <<doc, json, cursors, rootComplete, splitVars, syncVars, convVars>>

\* handle.value(), handle.string(), ..., begun or gone on with: markAsParsed
\* is passed once, when the call begins.
AwaitHandleRead(h, op) ==
  /\ MayRun(op, "handle", h)
  /\ handles[h].valid
  /\ ~handles[h].didParse \/ IsSuspended(op, "handle", h)
  /\ IF IsSuspended(op, "handle", h)
     THEN \E r \in {Read(op, json)} :
            IF r.err = Awaiting
            THEN UNCHANGED vars
            ELSE /\ json' = r.p
                 /\ last' = Call(op, "handle", h, r, last.pre)
                 /\ handles' = [handles EXCEPT ![h] =
                      Consumed([p |-> r.p, err |-> r.err, val |-> r.val,
                                h |-> handles[h], called |-> TRUE], op)]
                 /\ cursors' = Foreign(cursors, r.p, handles[h].cursor)
                 /\ UNCHANGED <<doc, rootComplete, splitVars, syncVars, convVars>>
     ELSE \E u \in {UnparsedRead(handles[h], op)} :
            IF u.err = Awaiting
            THEN /\ handles' = [handles EXCEPT ![h] = u.h]
                 /\ last' = Suspended(op, "handle", h, Known(op, Read(op, json)),
                                      HandlePre(handles[h]))
                 /\ UNCHANGED <<doc, json, cursors, rootComplete, splitVars, syncVars, convVars>>
            ELSE HandleRead(h, op)

\* A typed read through the handle the cursor yielded last, called while
\* the consumer's next() on the cursor is suspended.  markAsParsed decides
\* whether the read is refused; a read that is let through runs on the
\* parser as the suspended skip() left it, up to its own first await.
RacingHandleRead(h, op) ==
  /\ IsSuspended("next", "cursor", last.id)
  /\ cursors[last.id].gen = "suspended"
  /\ h = cursors[last.id].unparsed
  /\ \E m \in {markAsParsed(handles[h])} :
       IF m.err # NoErr
       THEN /\ last' = Call(op, "handle", h, Fail(json, m.err),
                            [HandlePre(handles[h]) EXCEPT !.nextPending = TRUE])
            /\ UNCHANGED <<doc, json, cursors, handles, rootComplete, splitVars, syncVars, convVars>>
       ELSE \E r \in {Read(op, skipUnparsed(json, handles[h]).p)} :
              /\ json' = r.p
              /\ last' = Call(op, "handle", h,
                              IF r.err \in {NoErr, Awaiting}
                              THEN Fail(r.p, Interleaved) ELSE Fail(r.p, r.err),
                              [HandlePre(handles[h]) EXCEPT !.nextPending = TRUE])
              /\ handles' = [handles EXCEPT ![h] = m.h]
              /\ UNCHANGED <<doc, cursors, rootComplete, splitVars, syncVars, convVars>>

NextAwait ==
  \/ Deliver
  \/ End
  \/ \E op \in ReadOps \cup {"skip"} : AwaitJsonRead(op)
  \/ \E op \in EnterOps : AwaitJsonEnter(op)
  \/ \E c \in DOMAIN cursors : AwaitCursorNext(c)
  \/ \E h \in DOMAIN handles : \E op \in ReadOps : AwaitHandleRead(h, op)
  \/ \E h \in DOMAIN handles : \E op \in ReadOps : RacingHandleRead(h, op)

SpecAwait == InitAwait /\ [][NextAwait]_vars

(***************************************************************************)
(* Properties of the parser                                                *)
(***************************************************************************)
DoubleConsume == "UnparsedValue can only be parsed once"
StaleHandle == "UnparsedValue is no longer valid"
AlreadyIterated == "Iterator can only be called once"
ValueAfterIterator == "Cannot extract value after iterator has been called"

\* The typed readers of a handle.
TypedReaders == ReadOps \cup EnterOps

\* The cursor the consumer's last call was made on.
LastCursor == cursors[last.id]

\* Every handle the generator of c was resumed from had been read by `by`
\* ("none": it had not been consumed).
AllReads(c, by) == \A i \in DOMAIN c.reads : c.reads[i] = by

\* The last call was a next() that ended the walk of a cursor by the
\* consumer's own generator, with every handle read by `by`, nothing else
\* having advanced the parser meanwhile.
WalkEnded(by) ==
  /\ last.on = "cursor" /\ last.op = "next"
  /\ last.pre.gen = "suspended" \/ ~last.pre.iteratorCalled
  /\ LastCursor.gen = "done"
  /\ AllReads(LastCursor, by)
  /\ ~LastCursor.foreign

\* The keys of an object, the indices of an array, in order.
Keys(v) ==
  [i \in DOMAIN v[2] |-> IF v[1] = "object" THEN v[2][i][1] ELSE i - 1]

\* for await (const [key, getValue] of cursor) await getValue.value()
\* from the parser state the consumer made the cursor c in.
ConsumeAll(c) ==
  Bind(Read(c.kind, c.origin), LAMBDA e : Result(cursorValue(e.p, Class(c.kind))))

\* What the consumer collects from the first n handles of c: the elements
\* in order, or the properties set in order.
RECURSIVE Collect(_, _)
Collect(c, n) ==
  IF n = 0 THEN <<>>
  ELSE IF c.kind = "array" THEN Append(Collect(c, n - 1), c.got[n])
  ELSE SetKey(Collect(c, n - 1), c.keys[n], c.got[n])

\* The parser p with all the source has left delivered in one fragment.
Whole(p) == [p EXCEPT !.buffer = p.buffer \o Flatten(p.stream), !.stream = <<>>]

\* C1: on a well-formed document, value() over any partition of the
\* document into fragments returns, without an Error, the value that value()
\* returns over the document delivered as one fragment.
C1_FragmentsAgree ==
  (/\ last.on = "json" /\ last.op = "value"
   /\ doc \in WellFormed
   /\ last.before = StreamingJSON(last.before.stream)
   /\ Flatten(last.before.stream) = doc)
  => /\ last.err = NoErr
     /\ value(StreamingJSON(<<doc>>)).err = NoErr
     /\ last.val = value(StreamingJSON(<<doc>>)).val

\* value() has returned "a\nA" from a source split inside the A escape.
C1_SplitEscape ==
  /\ last.on = "json" /\ last.op = "value"
  /\ doc = Docs[3]
  /\ last.before = StreamingJSON(<<SubSeq(doc, 1, 7), SubSeq(doc, 8, Len(doc))>>)
  /\ last.val = <<"string", <<"a", "\n", "A">>>>

\* C2: a walk of a well-formed object or array that consumes no handle ends
\* without an Error, with the parser in the state (current character,
\* buffer, nesting level, source) in which the walk that calls value() on
\* every handle leaves it, and has yielded the same keys / indices.
C2_SkipTransparent ==
  (WalkEnded("none") /\ doc \in WellFormed)
  => /\ last.err = NoErr
     /\ ConsumeAll(LastCursor).err = NoErr
     /\ json = ConsumeAll(LastCursor).p
     /\ LastCursor.keys = Keys(ConsumeAll(LastCursor).val)

\* The walk of [1,[2],"s"] has ended with none of its three handles consumed.
C2_SkippedAll ==
  /\ WalkEnded("none")
  /\ doc = Docs[4]
  /\ LastCursor.origin = StreamingJSON(LastCursor.origin.stream)
  /\ LastCursor.keys = <<0, 1, 2>>
  /\ last.err = NoErr

\* C3 as stated: a typed read through a handle its cursor has advanced past
\* fails with StaleHandle and leaves the parser as it was, whether or not the
\* handle had been consumed.
C3_StaleWhetherConsumed ==
  (last.on = "handle" /\ last.op \in TypedReaders /\ last.pre.passed)
  => (last.err = StaleHandle /\ json = last.before)

\* C3 amended: a typed read through a handle its cursor has advanced past
\* leaves the parser as it was and fails: with StaleHandle when the handle
\* had not been consumed, with DoubleConsume when it had.
C3_StaleOrDoubleConsume ==
  (last.on = "handle" /\ last.op \in TypedReaders /\ last.pre.passed)
  => /\ json = last.before
     /\ last.err = IF last.pre.readBy = "none" THEN StaleHandle ELSE DoubleConsume

\* A typed read through an unconsumed handle its cursor has advanced past.
C3_StaleRead ==
  /\ last.on = "handle" /\ last.op \in TypedReaders
  /\ last.pre.passed /\ last.pre.readBy = "none"
  /\ last.err = StaleHandle

\* C4: a typed read through a handle a typed reader has been called on
\* before fails with DoubleConsume and leaves the parser as it was.
C4_ReadOnce ==
  (last.on = "handle" /\ last.op \in TypedReaders /\ last.pre.readBy # "none")
  => (last.err = DoubleConsume /\ json = last.before)

\* A second typed read through a handle its cursor has not advanced past.
C4_SecondRead ==
  /\ last.on = "handle" /\ last.op \in TypedReaders
  /\ last.pre.readBy # "none" /\ ~last.pre.passed
  /\ last.err = DoubleConsume

\* C5: an iteration of a cursor whose generator the consumer has pulled
\* before fails with "Iterator can only be called once", value() on such a
\* cursor fails with "Cannot extract value after iterator has been called",
\* and both leave the parser as it was.
C5_IterateOnce ==
  /\ (last.on = "cursor" /\ last.op = "iterate")
       => (last.err = AlreadyIterated /\ json = last.before)
  /\ (last.on = "cursor" /\ last.op = "value" /\ last.pre.gen # "fresh")
       => (last.err = ValueAfterIterator /\ json = last.before)

\* A second iteration of a cursor whose first generator is suspended.
C5_SecondIteration ==
  /\ last.on = "cursor" /\ last.op = "iterate"
  /\ last.pre.gen = "suspended"
  /\ last.err = AlreadyIterated

\* C6: where the source holds a JSON string, the chunks stringChunks()
\* yields, concatenated in order, are the string that string() returns for
\* the same source, and the string it returns for the source delivered as
\* one fragment.
C6_ChunksConcatenate ==
  (/\ last.op = "stringChunks"
   /\ last.on = "handle" => (last.pre.readBy = "none" /\ ~last.pre.passed)
   /\ string(Whole(last.before)).err = NoErr)
  => /\ last.err = NoErr
     /\ string(last.before).err = NoErr
     /\ Flatten(last.val) = string(last.before).val[2]
     /\ Flatten(last.val) = string(Whole(last.before)).val[2]

\* stringChunks() has yielded "a\nA" in two chunks.
C6_TwoChunks ==
  /\ last.op = "stringChunks"
  /\ last.err = NoErr
  /\ Len(last.val) = 2
  /\ Flatten(last.val) = <<"a", "\n", "A">>

\* C7: a walk of a well-formed object or array that calls value() on every
\* handle ends without an Error, and value() from the parser state the
\* container was entered in returns what the walk collected and leaves the
\* parser in the state the walk leaves it in.
C7_EagerLazyAgree ==
  (WalkEnded("value") /\ doc \in WellFormed)
  => /\ last.err = NoErr
     /\ value(LastCursor.origin)
          = Ok(json, <<LastCursor.kind, Collect(LastCursor, Len(LastCursor.got))>>)

\* The walk of [1,[2],"s"] has ended with value() called on its three handles.
C7_WalkedAll ==
  /\ WalkEnded("value")
  /\ doc = Docs[4]
  /\ Len(LastCursor.got) = 3
  /\ LastCursor.got[2] = <<"array", << <<"number", FALSE, 2, 0>> >> >>
  /\ last.err = NoErr

\* C8 as stated: once a complete top-level value has been read, a further
\* read of a value through the parser fails.
C8_RefusesSecondRoot ==
  (/\ last.on = "json" /\ last.op \in TypedReaders
   /\ last.pre.rootComplete /\ last.before.nestingLevel = 0)
  => last.err # NoErr

\* value() has returned 2 from `1 2` after value() had returned 1.
C8_SecondRootValue ==
  /\ last.on = "json" /\ last.op = "value"
  /\ doc = Docs[7]
  /\ last.pre.rootComplete /\ last.before.nestingLevel = 0
  /\ last.err = NoErr
  /\ last.val = <<"number", FALSE, 2, 0>>

\* C9 as stated: value() on a cursor whose value() has returned before, its
\* iterator not called by the consumer, returns the cached result without an
\* Error and leaves the parser as it was.
C9_CachedValue ==
  (/\ last.on = "cursor" /\ last.op = "value"
   /\ last.pre.extracted /\ last.pre.gen = "fresh")
  => /\ last.err = NoErr
     /\ last.val = LastCursor.extractedValue
     /\ json = last.before

\* A second value() on a cursor has failed, the first having returned.
C9_SecondValueFails ==
  /\ last.on = "cursor" /\ last.op = "value"
  /\ last.pre.extracted /\ last.pre.gen = "fresh"
  /\ last.err = ValueAfterIterator

(***************************************************************************)
(* Properties of the splitter                                              *)
(***************************************************************************)
\* The segments of a dispatch sequence: for every generation id, in the
\* order the ids first appear, the kind and the deltas concatenated.
AddDelta(segments, d) ==
  IF \E i \in DOMAIN segments : segments[i].id = d.id
  THEN [i \in DOMAIN segments |->
          IF segments[i].id = d.id
          THEN [segments[i] EXCEPT !.text = @ \o d.textDelta]
          ELSE segments[i]]
  ELSE Append(segments, [id |-> d.id, type |-> d.type, text |-> d.textDelta])

RECURSIVE SegmentsOf(_, _)
SegmentsOf(dispatched, n) ==
  IF n = 0 THEN <<>> ELSE AddDelta(SegmentsOf(dispatched, n - 1), dispatched[n])

Segments(sm) ==
  [i \in DOMAIN SegmentsOf(sm.dispatched, Len(sm.dispatched)) |->
     <<SegmentsOf(sm.dispatched, Len(sm.dispatched))[i].type,
       SegmentsOf(sm.dispatched, Len(sm.dispatched))[i].text>>]

\* The deltas dispatched under the generation id k, concatenated.
RECURSIVE DeltasOf(_, _, _)
DeltasOf(dispatched, k, n) ==
  IF n = 0 THEN <<>>
  ELSE DeltasOf(dispatched, k, n - 1)
         \o (IF dispatched[n].id = k THEN dispatched[n].textDelta ELSE <<>>)

\* The text a splitter that was never reset has taken, from its generation
\* k on: the deltas of every generation with the marker that ended it (the
\* generations of odd number are those of text mode), then the buffer.
RECURSIVE Restored(_, _)
Restored(sm, k) ==
  IF k > sm.currentId THEN sm.buffer
  ELSE DeltasOf(sm.dispatched, k, Len(sm.dispatched))
         \o (IF k = sm.currentId THEN <<>>
             ELSE IF k % 2 = 1 THEN OpenTag ELSE CloseTag)
         \o Restored(sm, k + 1)

\* A new splitter after one append() of all the text appended so far.
WholeAppend == append(TextThoughtStateMachine, feed.appended)

\* C10: a splitter that was never reset, after appending a text in any
\* fragments, has dispatched the segments (kind and concatenated deltas per
\* generation id), and has the mode and the buffer, of a splitter given the
\* text in one append(); and its deltas, with the marker of every mode
\* switch put back between them, and its buffer make up the text, so that
\* no character of a marker it completed is in a delta.
C10_FragmentationInsensitive ==
  feed.resets = 0
  => /\ Segments(stateMachine) = Segments(WholeAppend)
     /\ stateMachine.currentMode = WholeAppend.currentMode
     /\ stateMachine.buffer = WholeAppend.buffer
     /\ Restored(stateMachine, 1) = feed.appended

\* a<plan>b</plan>c appended in three fragments, the last one starting
\* inside </plan>.
C10_SplitInsideMarker ==
  /\ feed.op = "append" /\ feed.resets = 0 /\ feed.appends = 3
  /\ feed.rest = <<>>
  /\ feed.appended = <<"a">> \o OpenTag \o <<"b">> \o CloseTag \o <<"c">>
  /\ feed.before.buffer = <<"<", "/", "p">>
  /\ feed.before.currentMode = "thought"
  /\ Segments(stateMachine)
       = << <<"APPEND_TEXT", <<"a">> >>, <<"APPEND_THOUGHT", <<"b">> >>,
            <<"APPEND_TEXT", <<"c">> >> >>

\* The text tag occurs in the text s.
Occurs(tag, s) ==
  \E i \in 1..(Len(s) - Len(tag) + 1) : SubSeq(s, i, i + Len(tag) - 1) = tag

\* What the last append() scanned: the buffer it found and its argument.
Scanned == feed.before.buffer \o feed.content

\* The deltas the last call dispatched.
NewDeltas ==
  SubSeq(stateMachine.dispatched, Len(feed.before.dispatched) + 1,
         Len(stateMachine.dispatched))

\* The text of the deltas ds, concatenated.
RECURSIVE DeltaText(_)
DeltaText(ds) == IF ds = <<>> THEN <<>> ELSE Head(ds).textDelta \o DeltaText(Tail(ds))

\* C11: an append() whose scanned text holds no occurrence of the marker
\* expected in the current mode, whatever starts of the marker it holds,
\* makes no mode transition, dispatches only deltas of the current mode and
\* generation, and its deltas followed by the buffer it leaves are the
\* scanned text, character for character.
C11_LookalikeVerbatim ==
  (feed.op = "append" /\ ~Occurs(targetSequence(feed.before), Scanned))
  => /\ stateMachine.currentMode = feed.before.currentMode
     /\ stateMachine.currentId = feed.before.currentId
     /\ \A i \in DOMAIN NewDeltas :
          /\ NewDeltas[i].id = feed.before.currentId
          /\ NewDeltas[i].type = IF feed.before.currentMode = "text"
                                 THEN "APPEND_TEXT" ELSE "APPEND_THOUGHT"
     /\ DeltaText(NewDeltas) \o stateMachine.buffer = Scanned

\* `x < y <play>` appended in one call and dispatched as one text delta.
C11_PlayDispatched ==
  /\ feed.op = "append"
  /\ feed.content = <<"x", " ", "<", " ", "y", " ", "<", "p", "l", "a", "y", ">">>
  /\ Len(stateMachine.dispatched) = 1
  /\ stateMachine.dispatched[1].type = "APPEND_TEXT"
  /\ stateMachine.dispatched[1].textDelta = feed.content
  /\ stateMachine.buffer = <<>>


\* The kind of delta dispatched in a mode.
KindOf(mode) == IF mode = "text" THEN "APPEND_TEXT" ELSE "APPEND_THOUGHT"

\* The ids of the deltas ds.
IdsOf(ds) == {ds[i].id : i \in DOMAIN ds}

\* C12: the dispatcher's calls are only ever added to; the deltas that share
\* an id are contiguous and of one kind, and neighbouring deltas of different
\* kinds have different ids; a delta that carries the current id has the kind
\* of the current mode; and a call that leaves the splitter in the other mode
\* leaves it with an id that no delta dispatched before the call carries.
C12_SegmentIds ==
  /\ Len(feed.before.dispatched) <= Len(stateMachine.dispatched)
  /\ SubSeq(stateMachine.dispatched, 1, Len(feed.before.dispatched))
       = feed.before.dispatched
  /\ \A i, j \in DOMAIN stateMachine.dispatched :
       (i < j /\ stateMachine.dispatched[i].id = stateMachine.dispatched[j].id)
       => \A k \in i..j :
            /\ stateMachine.dispatched[k].id = stateMachine.dispatched[i].id
            /\ stateMachine.dispatched[k].type = stateMachine.dispatched[i].type
  /\ \A i \in DOMAIN stateMachine.dispatched :
       /\ (i > 1 /\ stateMachine.dispatched[i].type # stateMachine.dispatched[i - 1].type)
          => stateMachine.dispatched[i].id # stateMachine.dispatched[i - 1].id
       /\ stateMachine.dispatched[i].id = stateMachine.currentId
          => stateMachine.dispatched[i].type = KindOf(stateMachine.currentMode)
  /\ stateMachine.currentMode # feed.before.currentMode
     => stateMachine.currentId \notin
          IdsOf(feed.before.dispatched) \cup {feed.before.currentId}

\* C12 witness: prose, reasoning and prose again have been dispatched under
\* three ids, and one of the segments in more than one delta.
C12_ThreeSegments ==
  /\ feed.rest = <<>>
  /\ Cardinality(IdsOf(stateMachine.dispatched)) = 3
  /\ Len(stateMachine.dispatched) > 3
  /\ \E i, j, k \in DOMAIN stateMachine.dispatched :
       /\ i < j /\ j < k
       /\ stateMachine.dispatched[i].type = "APPEND_TEXT"
       /\ stateMachine.dispatched[j].type = "APPEND_THOUGHT"
       /\ stateMachine.dispatched[k].type = "APPEND_TEXT"


\* C13: reset() on a splitter whose buffer holds the start of a marker throws
\* "Buffer was not empty: ..." and leaves the splitter as it was; reset() on
\* a splitter with an empty buffer returns, and leaves it in text mode with
\* an empty buffer and an id that it did not have and no delta carries.
C13_ResetNeedsEmptyBuffer ==
  feed.op = "reset"
  => IF feed.before.buffer # <<>>
     THEN /\ feed.err = "Buffer was not empty: " \o stringify(feed.before.buffer)
          /\ stateMachine = feed.before
     ELSE /\ feed.err = NoErr
          /\ stateMachine.currentMode = "text"
          /\ stateMachine.buffer = <<>>
          /\ stateMachine.dispatched = feed.before.dispatched
          /\ stateMachine.currentId \notin
               IdsOf(stateMachine.dispatched) \cup {feed.before.currentId}

\* C13 witness: reset() was refused while the buffer held "<pl".
C13_DirtyReset ==
  /\ feed.op = "reset"
  /\ feed.before.buffer = <<"<", "p", "l">>
  /\ feed.err = "Buffer was not empty: \"<pl\""


(***************************************************************************)
(* Properties of the synchronized reducer                                  *)
(***************************************************************************)
\* The reducer folded over actions from a state, the first with the id k.
RECURSIVE FoldFrom(_, _, _)
FoldFrom(state, actions, k) ==
  IF actions = <<>> THEN state
  ELSE FoldFrom(stateReducer(state, Head(actions), k).state, Tail(actions), k + 1)

\* C14: the actions given to the outbound stream are the actions of the
\* dispatch() calls that returned, in the order of the calls and each once,
\* and the state is the reducer folded over them from the initial state.
C14_StreamMirrorsFold ==
  /\ sync.streamableValue = owner.returned
  /\ sync.state = FoldFrom(initialState, owner.returned, 1)
  /\ sync.generated = Len(sync.streamableValue)

\* C14 witness: three different actions have been dispatched and folded.
C14_ThreeMirrored ==
  /\ Len(sync.streamableValue) = 3
  /\ Cardinality({sync.streamableValue[i].type : i \in 1..3}) = 3
  /\ Len(sync.state.history) = 3
  /\ DOMAIN sync.state.files # {}

\* C15: a dispatch() call on which the reducer throws throws the reducer's
\* Error and leaves the state and the outbound stream as they were.
C15_FailedDispatchChangesNothing ==
  (owner.op = "dispatch"
   /\ stateReducer(owner.before.state, owner.action, owner.before.generated + 1).err
        # NoErr)
  => /\ owner.err = stateReducer(owner.before.state, owner.action,
                                 owner.before.generated + 1).err
     /\ sync.state = owner.before.state
     /\ sync.streamableValue = owner.before.streamableValue

\* C15 witness: a second CREATE_FILE for the same path was refused after a
\* first was folded.
C15_CreateTwiceRefused ==
  /\ owner.op = "dispatch"
  /\ owner.action = [type |-> "CREATE_FILE", file |-> File("p")]
  /\ owner.err = "File p already exists"
  /\ Len(sync.streamableValue) = 1
  /\ "p" \in DOMAIN sync.state.files


(***************************************************************************)
(* Properties of the parser: malformed input                               *)
(***************************************************************************)
\* The last call was a next() on the cursor of the document's root
\* container, which nothing but the cursor and its handles has advanced,
\* and it was the step after `yielded` entries.
StepAfter(yielded) ==
  /\ last.op = "next" /\ last.on = "cursor"
  /\ cursors[last.id].root
  /\ ~cursors[last.id].foreign
  /\ IF yielded = 0
     THEN last.pre.gen = "fresh" /\ ~last.pre.iteratorCalled
     ELSE last.pre.gen = "suspended" /\ cursors[last.id].passed = yielded

\* C16: the first step of the cursor fails on {123} and {[} with "Expected
\* '"', but got ..." and on {"k" 1} with "Expected ':', but got '1'"; on
\* {"a":1 "b":2} and [1 2] the first step yields the first entry and the
\* step after it fails with "Expected one of ',', '}', but got '"'" and
\* "Expected one of ',', ']', but got '2'".
C16_MalformedStructureRejected ==
  /\ (doc = MalformedStructure[1] /\ StepAfter(0))
     => last.err = "Expected '\"', but got '1'"
  /\ (doc = MalformedStructure[2] /\ StepAfter(0))
     => last.err = "Expected '\"', but got '['"
  /\ (doc = MalformedStructure[3] /\ StepAfter(0))
     => last.err = "Expected ':', but got '1'"
  /\ (doc \in {MalformedStructure[4], MalformedStructure[5]} /\ StepAfter(0))
     => last.err = NoErr /\ Len(cursors[last.id].keys) = 1
  /\ (doc = MalformedStructure[4] /\ StepAfter(1))
     => last.err = "Expected one of ',', '}', but got '\"'"
  /\ (doc = MalformedStructure[5] /\ StepAfter(1))
     => last.err = "Expected one of ',', ']', but got '2'"

\* C16 witness: the step after the entry "a" of {"a":1 "b":2}, which the
\* consumer had not read, failed on the missing comma.
C16_MissingComma ==
  /\ doc = MalformedStructure[4]
  /\ StepAfter(1)
  /\ cursors[last.id].reads = <<"none">>
  /\ last.err = "Expected one of ',', '}', but got '\"'"


\* The text the parser p has not passed: its current character, its buffer
\* and what the source has not delivered.
Rest(p) ==
  (IF p.currentChar = Null THEN <<>> ELSE <<p.currentChar>>)
    \o p.buffer \o Flatten(p.stream)

\* A text without its leading whitespace.
RECURSIVE Trim(_)
Trim(cs) == IF cs # <<>> /\ IsWhitespace(Head(cs)) THEN Trim(Tail(cs)) ELSE cs

\* The number of leading characters in which the texts a and b agree.
RECURSIVE Agree(_, _)
Agree(a, b) ==
  IF a = <<>> \/ b = <<>> \/ Head(a) # Head(b) THEN 0
  ELSE 1 + Agree(Tail(a), Tail(b))

\* The keyword that starts with the character c, and its value.
Keyword(c) ==
  CASE c = "t" -> <<"t", "r", "u", "e">>
    [] c = "f" -> <<"f", "a", "l", "s", "e">>
    [] c = "n" -> <<"n", "u", "l", "l">>
KeywordValue(c) ==
  CASE c = "t" -> <<"boolean", TRUE>>
    [] c = "f" -> <<"boolean", FALSE>>
    [] c = "n" -> <<"null">>

\* The last call was passed on to the parser: it was made on the parser, or
\* on a handle that was valid and not consumed.
ReachedParser ==
  \/ last.on = "json"
  \/ last.on = "handle" /\ ~last.pre.didParse /\ last.pre.valid

\* The text before the parser at the last call, after whitespace.
Pending == Trim(Rest(last.before))

\* The last call was a read of a keyword: boolean() before t or f, null()
\* before n, or value() before any of them.
KeywordRead ==
  /\ ReachedParser
  /\ Pending # <<>>
  /\ \/ last.op \in {"boolean", "value"} /\ Head(Pending) \in {"t", "f"}
     \/ last.op \in {"null", "value"} /\ Head(Pending) = "n"

\* The number of characters of the keyword that the text has.
Matched == Agree(Keyword(Head(Pending)), Pending)

\* C17: boolean(), null() and value() before a text that starts like a
\* keyword return the keyword's value when the whole keyword is there;
\* otherwise they throw "Expected '<c>', but got '<char>'" for the first
\* character c of the keyword that the text does not have and the character
\* in its place, or "Expected '<c>', but got end of stream" when the text
\* ends there.
C17_KeywordMismatch ==
  KeywordRead
  => IF Matched = Len(Keyword(Head(Pending)))
     THEN last.err = NoErr /\ last.val = KeywordValue(Head(Pending))
     ELSE IF Matched < Len(Pending)
     THEN last.err = "Expected '" \o Keyword(Head(Pending))[Matched + 1]
                       \o "', but got '" \o Pending[Matched + 1] \o "'"
     ELSE last.err = "Expected '" \o Keyword(Head(Pending))[Matched + 1]
                       \o "', but got end of stream"

\* C17 witness: boolean() on fals, delivered in two fragments, failed at the
\* end of the stream.
C17_TruncatedFalse ==
  /\ doc = MalformedKeywords[2]
  /\ last.op = "boolean"
  /\ Len(last.before.stream) = 2
  /\ last.err = "Expected 'e', but got end of stream"


\* The hexadecimal digits at the head of cs, four at most.
RECURSIVE HexPrefix(_, _)
HexPrefix(cs, n) ==
  IF n = 0 \/ cs = <<>> \/ Head(cs) \notin HexDigit THEN <<>>
  ELSE <<Head(cs)>> \o HexPrefix(Tail(cs), n - 1)

\* The text cs from its character i on.
From(cs, i) == SubSeq(cs, i, Len(cs))

\* The Error of the first bad escape in the string whose text after the
\* opening quote is cs, "" when the string has none before its closing
\* quote or the end of the text.
RECURSIVE EscapeError(_)
EscapeError(cs) ==
  IF cs = <<>> \/ Head(cs) = "\"" THEN NoErr
  ELSE IF Head(cs) # "\\" THEN EscapeError(Tail(cs))
  ELSE IF Len(cs) = 1
  THEN "Incomplete escape code in string tried to read past end of stream"
  ELSE IF cs[2] = "u"
  THEN IF Len(HexPrefix(From(cs, 3), 4)) = 4 THEN EscapeError(From(cs, 7))
       ELSE "Invalid Unicode escape sequence: \\u" \o Str(HexPrefix(From(cs, 3), 4))
              \o (IF From(cs, 3 + Len(HexPrefix(From(cs, 3), 4))) = <<>> THEN ""
                  ELSE cs[3 + Len(HexPrefix(From(cs, 3), 4))])
  ELSE IF cs[2] \in DOMAIN SPECIAL_ESCAPE_CHARS THEN EscapeError(From(cs, 3))
  ELSE "Invalid escape sequence: \\" \o cs[2]

\* The last call was a read of a string: string(), stringChunks() or
\* value() before a double quote.
StringRead ==
  /\ ReachedParser
  /\ last.op \in {"string", "stringChunks", "value"}
  /\ Pending # <<>>
  /\ Head(Pending) = "\""

\* C18: a read of a string with a bad escape throws the Error of the first
\* one: "Invalid escape sequence: \<c>" for a backslash before a character
\* other than b f n r t " \ / u, "Incomplete escape code in string tried to
\* read past end of stream" for a backslash at the end of the text, and
\* "Invalid Unicode escape sequence: ..." for \u before fewer than four
\* hexadecimal digits; string() and value() return no value.
C18_BadEscapeRejected ==
  (StringRead /\ EscapeError(Tail(Pending)) # NoErr)
  => /\ last.err = EscapeError(Tail(Pending))
     /\ last.op \in {"string", "value"} => last.val = NoVal

\* C18 witness: string() on "\u00g0", delivered in two fragments, failed at
\* the g.
C18_BadHexDigit ==
  /\ doc = MalformedStrings[4]
  /\ last.op = "string"
  /\ Len(last.before.stream) = 2
  /\ last.err = "Invalid Unicode escape sequence: \\u00g"
  /\ last.val = NoVal


\* The JSON number grammar: the sign, the integer part, the fraction and the
\* exponent at the head of a text, each empty when the text has none.
SignPart(cs) == IF cs # <<>> /\ Head(cs) = "-" THEN <<"-">> ELSE <<>>
IntPart(cs) ==
  IF cs # <<>> /\ Head(cs) = "0" THEN <<"0">> ELSE TakeDigits(cs)
FracPart(cs) ==
  IF cs # <<>> /\ Head(cs) = "." /\ TakeDigits(Tail(cs)) # <<>>
  THEN <<".">> \o TakeDigits(Tail(cs)) ELSE <<>>
ExpSign(cs) == IF cs # <<>> /\ Head(cs) \in {"+", "-"} THEN <<Head(cs)>> ELSE <<>>
ExpPart(cs) ==
  IF cs # <<>> /\ Head(cs) \in {"e", "E"}
     /\ TakeDigits(From(Tail(cs), Len(ExpSign(Tail(cs))) + 1)) # <<>>
  THEN <<Head(cs)>> \o ExpSign(Tail(cs))
         \o TakeDigits(From(Tail(cs), Len(ExpSign(Tail(cs))) + 1))
  ELSE <<>>

\* The sign and integer part, then with the fraction: the longest prefix of
\* cs that matches the number grammar is Numeral(cs).
Integral(cs) ==
  IF IntPart(From(cs, Len(SignPart(cs)) + 1)) = <<>> THEN <<>>
  ELSE SignPart(cs) \o IntPart(From(cs, Len(SignPart(cs)) + 1))
Decimal(cs) == Integral(cs) \o FracPart(From(cs, Len(Integral(cs)) + 1))
Numeral(cs) ==
  IF Integral(cs) = <<>> THEN <<>>
  ELSE Decimal(cs) \o ExpPart(From(cs, Len(Decimal(cs)) + 1))

\* The last call was number() before a text that starts with a number.
NumberRead ==
  /\ ReachedParser
  /\ last.op = "number"
  /\ Numeral(Pending) # <<>>

\* What follows the longest number at the last call.
AfterNumeral == From(Pending, Len(Numeral(Pending)) + 1)

\* The last call returned the value of the longest number before it and
\* left the parser at the character that follows it.
LongestNumberRead ==
  /\ last.err = NoErr
  /\ last.val = Number(Numeral(Pending))
  /\ Rest(json) = AfterNumeral
  /\ json.currentChar = IF AfterNumeral = <<>> THEN Null ELSE Head(AfterNumeral)

\* The longest number has no fraction and no exponent and a point follows
\* it; it has no exponent and an e / E follows it.  No digit follows that
\* point, or that e / E and its optional sign.
DanglingPoint ==
  /\ Numeral(Pending) = Integral(Pending)
  /\ AfterNumeral # <<>> /\ Head(AfterNumeral) = "."
DanglingExponent ==
  /\ Numeral(Pending) = Decimal(Pending)
  /\ AfterNumeral # <<>> /\ Head(AfterNumeral) \in {"e", "E"}

\* `'${this.currentChar}'` for the character i of a text.
Quoted(cs, i) == "'" \o (IF i > Len(cs) THEN "null" ELSE cs[i]) \o "'"

\* The characters number() has taken when it misses the digit of an
\* exponent.
TakenExponent ==
  Numeral(Pending) \o <<Head(AfterNumeral)>> \o ExpSign(Tail(AfterNumeral))

\* C19 as stated: number() before a text that starts with a number returns
\* the value of the longest prefix that matches the number grammar and
\* leaves the character after it as the current character, without failing.
C19_LongestPrefixNeverFails == NumberRead => LongestNumberRead

\* C19 as amended: number() takes a point that follows the integer part, or
\* an e / E with its sign that follows the integer part or the fraction, and
\* then fails with "Invalid number: Expected digit after ..." unless a
\* digit follows; it fails with "Invalid number: ...
\* cannot be parsed as a finite number" when the value is not finite; in
\* every other case it returns the value of the longest prefix that matches
\* the number grammar and leaves the character after it as the current
\* character.  value() before a point throws "... unexpected character '.'".
C19_GreedyNumber ==
  /\ NumberRead
     => IF DanglingPoint
        THEN last.err = "Invalid number: Expected digit after decimal point in '"
                          \o Str(Numeral(Pending)) \o ".', but got "
                          \o Quoted(AfterNumeral, 2)
        ELSE IF DanglingExponent
        THEN last.err = "Invalid number: Expected digit after exponent in '"
                          \o Str(TakenExponent) \o "', but got "
                          \o Quoted(Pending, Len(TakenExponent) + 1)
        ELSE IF ~isFinite(Number(Numeral(Pending)))
        THEN last.err = "Invalid number: '" \o Str(Numeral(Pending))
                          \o "' cannot be parsed as a finite number"
        ELSE LongestNumberRead
  /\ (ReachedParser /\ last.op = "value" /\ Pending # <<>> /\ Head(Pending) = ".")
     => last.err = "Expected a value in JSON stream but instead got unexpected character '.'"

\* C19 witness: number() on 123.45.67 returned 123.45 and the value() after
\* it failed at the second point.
C19_SecondPoint ==
  /\ doc = OddNumbers[1]
  /\ last.op = "value" /\ last.on = "json"
  /\ last.before.currentChar = "."
  /\ Pending = <<".", "6", "7">>
  /\ last.err = "Expected a value in JSON stream but instead got unexpected character '.'"


\* The last call was op on the parser before the text cs of 123e4e5.
At123e4e5(op, cs) ==
  /\ doc = OddNumbers[2]
  /\ last.on = "json" /\ last.op = op
  /\ Rest(last.before) = cs

\* C20 as stated: number() on 123e4e5 returns 1.23e7 (123 times the fifth
\* power of ten), and the value() after it throws "... unexpected character
\* 'e'".
C20_ChainedExponent1e7 ==
  /\ At123e4e5("number", doc) => last.val = <<"number", FALSE, 123, 5>>
  /\ At123e4e5("value", <<"e", "5">>)
     => last.err = "Expected a value in JSON stream but instead got unexpected character 'e'"

\* C20 as amended: number() on 123e4e5 returns 1230000 (123 times the
\* fourth power of ten, 1.23e6) and leaves the second e as the current
\* character, and the value() after it throws "... unexpected character
\* 'e'".
C20_ChainedExponent ==
  /\ At123e4e5("number", doc)
     => /\ last.err = NoErr
        /\ last.val = <<"number", FALSE, 123, 4>>
        /\ json.currentChar = "e"
        /\ Rest(json) = <<"e", "5">>
  /\ At123e4e5("value", <<"e", "5">>)
     => last.err = "Expected a value in JSON stream but instead got unexpected character 'e'"

\* C20 witness: number() has read 123e4 and the value() after it has failed
\* at the second e.
C20_SecondExponent ==
  /\ At123e4e5("value", <<"e", "5">>)
  /\ last.before.currentChar = "e"
  /\ rootComplete
  /\ last.err # NoErr

(***************************************************************************)
(* Properties of the splitter at a mismatch                                *)
(***************************************************************************)
\* The first append() calls of a splitter, none of them after a reset().
FirstStream == feed.op = "append" /\ feed.resets = 0

\* C22: a marker that begins at the character that breaks a partial match
\* is recognized: once the text appended to a new splitter holds <plan>,
\* the splitter has left text mode (a second id has been generated), and
\* once it holds <plan> and after it </plan>, the splitter has returned to
\* text mode (a third id).
C22_MarkerAtMismatchRecognized ==
  FirstStream
  => /\ Occurs(OpenTag, feed.appended) => stateMachine.generated >= 2
     /\ (\E i \in 1..Len(feed.appended) :
           /\ Occurs(OpenTag, SubSeq(feed.appended, 1, i))
           /\ Occurs(CloseTag, SubSeq(feed.appended, i + 1, Len(feed.appended))))
        => stateMachine.generated >= 3

\* C22 witness: <<plan>x has been appended whole and the splitter is still
\* in text mode with its first id, <<plan>x dispatched as prose.
C22_DoubledOpenerMissed ==
  /\ FirstStream
  /\ feed.appended = <<"<">> \o OpenTag \o <<"x">>
  /\ stateMachine.currentMode = "text"
  /\ stateMachine.generated = 1
  /\ DeltaText(stateMachine.dispatched) = feed.appended

(***************************************************************************)
(* Properties of cursors and of the current character                      *)
(***************************************************************************)
\* C26: no cursor has both its iterator started (iteratorCalled) and a
\* value extracted (extractedValue set).
C26_FlagsExclusive ==
  \A c \in DOMAIN cursors :
    ~(cursors[c].iteratorCalled /\ cursors[c].extractedValue # NoVal)

\* C26 witness: value() has returned on a cursor the consumer never
\* iterated, and the cursor has both flags.
C26_BothFlagsAfterValue ==
  /\ last.on = "cursor" /\ last.op = "value" /\ last.err = NoErr
  /\ ~last.pre.iteratorCalled /\ ~last.pre.extracted /\ last.pre.gen = "fresh"
  /\ cursors[last.id].iteratorCalled
  /\ cursors[last.id].extractedValue = last.val

\* The cursor c has walked a well-formed document undisturbed: no call but
\* its own pulls and the reads through its handles has advanced the parser,
\* and every handle it has passed was left to be skipped or was read whole.
Undisturbed(c) ==
  /\ doc \in WellFormed
  /\ ~cursors[c].foreign
  /\ \A i \in DOMAIN cursors[c].reads : cursors[c].reads[i] \in ReadOps \cup {"none"}

\* The last call was a pull of a cursor that yielded a handle.
YieldedHandle ==
  /\ last.on = "cursor" /\ last.op \in {"next", "iterate"}
  /\ last.err = NoErr /\ last.val # <<"done">>

\* The last call was peekValueType() on the handle a cursor has just
\* yielded.
PeekedAtYield ==
  /\ last.on = "handle" /\ last.op = "peekValueType"
  /\ last.pre.valid /\ ~last.pre.didParse /\ ~last.pre.passed

\* C25: when a cursor that has walked a well-formed document undisturbed
\* yields a handle, the current character is the first character of the
\* element's value, not whitespace, and peekValueType() on the handle
\* returns a type and leaves the parser as it was.
C25_YieldAtValue ==
  /\ (YieldedHandle /\ Undisturbed(last.id))
     => /\ json.currentChar # Null
        /\ ~IsWhitespace(json.currentChar)
        /\ json.currentChar = Head(Trim(Rest(json)))
  /\ (PeekedAtYield /\ Undisturbed(handles[last.id].cursor))
     => /\ last.err = NoErr
        /\ json = last.before

\* C25 witness: the cursor of { "k" : {} } has yielded the handle of k with
\* the space after the colon as the current character, and peekValueType()
\* on the handle has thrown.
C25_SpaceAfterColon ==
  /\ PeekedAtYield /\ Undisturbed(handles[last.id].cursor)
  /\ cursors[handles[last.id].cursor].kind = "object"
  /\ json.currentChar = " "
  /\ last.err = "Expected a value in JSON stream but instead got unexpected character ' '"

\* The last call was a read that returned: a reader of the parser or of a
\* handle that passed it on, value() of a cursor, or the pull that ended a
\* cursor's iteration.
ReadReturned ==
  /\ last.err = NoErr
  /\ \/ ReachedParser /\ last.op \in ReadOps \cup {"skip"}
     \/ last.on = "cursor" /\ last.op = "value"
     \/ last.on = "cursor" /\ last.op \in {"next", "iterate"} /\ last.val = <<"done">>

\* The text the last call consumed: what was before the parser at the call
\* without what is before it now.
TextRead == SubSeq(Rest(last.before), 1, Len(Rest(last.before)) - Len(Rest(json)))

\* C27 as stated: after a read returns, the current character is absent or
\* is not whitespace.
C27_NeverWhitespace ==
  ReadReturned => (json.currentChar = Null \/ ~IsWhitespace(json.currentChar))

\* C27 as amended: after a read returns, the parser has consumed the text
\* up to and including the last character of what it read and nothing
\* after it: the text consumed is not empty and does not end in whitespace,
\* and the current character is the character that follows it in the
\* stream, whitespace or not, or absent when the stream ends there.
C27_StopsAfterValue ==
  ReadReturned
  => /\ Len(Rest(json)) < Len(Rest(last.before))
     /\ Rest(last.before) = TextRead \o Rest(json)
     /\ ~IsWhitespace(TextRead[Len(TextRead)])
     /\ (json.currentChar = Null) = (Rest(json) = <<>>)

\* C27 witness: number() has returned 1 on the source 1 2 and the current
\* character is the space after the 1.
C27_SpaceAfterNumber ==
  /\ ReadReturned /\ last.op = "number"
  /\ doc = <<"1", " ", "2">>
  /\ last.val = <<"number", FALSE, 1, 0>>
  /\ json.currentChar = " "

(***************************************************************************)
(* Properties of the end of the stream                                     *)
(***************************************************************************)
PastEnd == "Tried to read past end of stream"

\* The fields of the parser object.
Fields(p) == <<p.currentChar, p.nestingLevel, p.buffer, p.stream>>

\* The buffer is empty and the source has ended.
AtEnd(p) == p.buffer = <<>> /\ p.stream = <<>> /\ ~p.open

\* The last call went to the parser and began by looking for a character:
\* a reader, skip(), object() or array() on the parser or through a handle,
\* or a pull of a cursor's generator that ran.
BeganReading ==
  \/ ReachedParser /\ last.op \in ReadOps \cup EnterOps \cup {"skip"}
  \/ /\ last.on = "cursor" /\ last.op = "next"
     /\ last.err \notin {AlreadyIterated, ValueAfterIterator}

\* The object {"a": 1, "b": 2} has been iterated to its end with no handle
\* consumed, and the last call is the first call after that.
AfterIteratedObject ==
  /\ doc = Docs[Len(Docs) - 1]
  /\ Len(cursors) = 1 /\ cursors[1].gen = "done" /\ cursors[1].keys = <<"a", "b">>
  /\ \A h \in DOMAIN handles : handles[h].readBy = "none"
  /\ last.on = "json" /\ last.op \in ReadOps \cup EnterOps \cup {"skip"}
  /\ last.pre.rootComplete

\* C28: nextChar() at the end of the stream clears a current character and
\* returns; with no current character it throws "Tried to read past end of
\* stream" and leaves the parser's fields as they were.  A call that begins
\* at the end of the stream with no current character therefore throws
\* that Error and changes nothing, and so does the first read after
\* {"a": 1, "b": 2} was iterated with no handle consumed.
C28_ReadPastEnd ==
  /\ (AtEnd(json) /\ json.currentChar # Null)
     => /\ nextChar(json).err = NoErr
        /\ Fields(nextChar(json).p) = Fields([json EXCEPT !.currentChar = Null])
  /\ (AtEnd(json) /\ json.currentChar = Null)
     => /\ nextChar(json).err = PastEnd
        /\ Fields(nextChar(json).p) = Fields(json)
  /\ (BeganReading /\ AtEnd(last.before) /\ last.before.currentChar = Null)
     => /\ last.err = PastEnd
        /\ Fields(json) = Fields(last.before)
  /\ AfterIteratedObject
     => /\ AtEnd(last.before) /\ last.before.currentChar = Null
        /\ last.before.nestingLevel = 0
        /\ last.err = PastEnd

\* C28 witness: {"a": 1, "b": 2} has been iterated with no handle consumed
\* and the value() after it has thrown the end-of-stream Error.
C28_ReadAfterIteratedObject ==
  /\ AfterIteratedObject
  /\ last.op = "value"
  /\ last.err = PastEnd
  /\ cursors[1].reads = <<"none", "none">>

(***************************************************************************)
(* Properties of a cursor's walk                                           *)
(***************************************************************************)
\* The number of entries of the container that the document d is.
Entries(d) == Len(value(StreamingJSON(<<d>>)).val[2])

\* The last call was the pull that ended the iteration of a cursor of a
\* well-formed document, without an Error, no call but the cursor's own
\* pulls and the calls on its handles having advanced the parser.
WalkCompleted ==
  /\ last.on = "cursor" /\ last.op = "next"
  /\ last.err = NoErr /\ last.val = <<"done">>
  /\ doc \in WellFormed
  /\ ~LastCursor.foreign

\* C24: when the iteration of a cursor completes without an Error, the
\* nesting level is the one before the object() / array() call that made
\* the cursor, and a cursor of the document's root has yielded one entry
\* for every entry of the document.
C24_WalkYieldsEveryEntry ==
  WalkCompleted
  => /\ json.nestingLevel = LastCursor.origin.nestingLevel
     /\ LastCursor.root => Len(LastCursor.keys) = Entries(doc)

\* C24 witness: on [[],1] the consumer took handle.array() from the first
\* element and did not iterate it; the outer iteration then ended without
\* an Error after one entry of two, at nesting level 1.
C24_NestedCursorLeftOpen ==
  /\ WalkCompleted
  /\ doc = Docs[Len(Docs)]
  /\ LastCursor.root
  /\ LastCursor.reads = <<"array">>
  /\ LastCursor.keys = <<0>>
  /\ Entries(doc) = 2
  /\ json.nestingLevel = 1

(***************************************************************************)
(* Properties of the parser over an awaited source                         *)
(***************************************************************************)
\* The last call has returned or thrown, and was not a read let through
\* beside a suspended skip().
Settled == last.err # Awaiting /\ last.op # "new" /\ ~last.pre.nextPending

\* The number of stream.next() calls that returned during the last call.
Pulls == json.pulls - last.before.pulls

\* The suspended call, gone on with, returns or throws: it does not await
\* the source again.
CanSettle ==
  IF last.on = "cursor" THEN Stage(last.id) = "none"
  ELSE Read(last.op, json).err # Awaiting

\* C21: no read is stuck.  A call awaits nothing but the source: once the
\* source has ended, wherever the document was cut, a suspended call that
\* goes on returns or throws and does not await again; and a call that has
\* returned or thrown has pulled the source at most once for every
\* fragment that was ready and twice at the end of the stream.
C21_NoStuckParse ==
  /\ (last.err = Awaiting /\ ~json.open) => CanSettle
  /\ Settled => Pulls <= Len(last.before.stream) + 2

\* C21 witness: a stringChunks() call that was suspended has thrown at the
\* end of a source that ended inside the string, after two pulls at the end.
C21_TruncatedStringEnds ==
  /\ Settled /\ last.op = "stringChunks"
  /\ doc = Docs[3]
  /\ ~json.open
  /\ Flatten(last.before.stream) # doc
  /\ last.err # NoErr
  /\ Pulls = Len(last.before.stream) + 2

\* C23: a typed read through the handle a cursor yielded last, called while
\* the consumer's next() on that cursor is suspended, throws at once:
\* "UnparsedValue is no longer valid", or "UnparsedValue can only be parsed
\* once" when the handle was consumed before.  It does not reach the parser.
C23_ReadDuringNextRefused ==
  (last.on = "handle" /\ last.pre.nextPending)
  => /\ last.err \in {StaleHandle, DoubleConsume}
     /\ json = last.before

\* C23 witness: next() is suspended in the skip() of the element, the
\* handle of the element is still valid and not consumed, and a read
\* through it has been let through: it awaits the source beside the skip.
C23_ReadBesideSkip ==
  /\ last.on = "handle" /\ last.pre.nextPending
  /\ last.pre.valid /\ ~last.pre.didParse
  /\ cursors[handles[last.id].cursor].gen = "suspended"
  /\ skipUnparsed(last.before, [handles[last.id] EXCEPT !.didParse = FALSE]).err = Awaiting
  /\ handles[last.id].didParse
  /\ last.err = Interleaved

\* The fragments fs without the empty ones.
RECURSIVE NonEmpty(_)
NonEmpty(fs) ==
  IF fs = <<>> THEN <<>>
  ELSE (IF Head(fs) = <<>> THEN <<>> ELSE <<Head(fs)>>) \o NonEmpty(Tail(fs))

\* The parser p over the same source without its empty fragments, all of
\* them ready and the source ended after them.
Dense(p) ==
  [p EXCEPT !.stream = NonEmpty(p.stream \o p.coming), !.coming = <<>>, !.open = FALSE]

\* What a call gave: its Error and its value, the chunks of stringChunks()
\* joined.
Given(op, err, val) == <<err, IF op = "stringChunks" /\ err = NoErr THEN Flatten(val) ELSE val>>

\* The last call was the first call on the parser, and has returned or
\* thrown.
FirstCallSettled == Settled /\ last.on = "json" /\ last.before.pulls = 0

\* C29: the first call on a parser gives what it gives over the same
\* fragments without the empty ones: the same Error or the same value.
C29_EmptyFragmentUnseen ==
  FirstCallSettled
  => Given(last.op, last.err, last.val)
       = Given(last.op, Read(last.op, Dense(last.before)).err,
               Read(last.op, Dense(last.before)).val)

\* C29 witness: the source delivers -12, an empty fragment and .5e+1;
\* number() has returned -12, and over -12 and .5e+1 it returns -125.
C29_NumberCutAtEmptyFragment ==
  /\ FirstCallSettled /\ last.op = "number"
  /\ last.before.stream = << <<"-", "1", "2">>, <<>>, <<".", "5", "e", "+", "1">> >>
  /\ last.err = NoErr
  /\ last.val = <<"number", TRUE, 12, 0>>
  /\ number(Dense(last.before)).val = <<"number", TRUE, 125, 0>>
  /\ Rest(json) = <<".", "5", "e", "+", "1">>

\* stringChunks() is suspended at the source: its consumer's call awaits
\* a fragment the source has not produced.
ChunksAwaitSource ==
  /\ last.err = Awaiting /\ last.op = "stringChunks"
  /\ stringChunks(json).err = Awaiting

\* C30: while stringChunks() awaits the source it holds no decoded text:
\* everything decoded so far has been yielded.
C30_NothingHeldWhileAwaiting ==
  ChunksAwaitSource => stringChunks(json).held = <<>>

\* C30 witness: the fragment read ends right after the backslash of an
\* escape; stringChunks() awaits the source there, having decoded `a` and
\* yielded nothing.
C30_AwaitInsideEscape ==
  /\ ChunksAwaitSource
  /\ stringChunks(json).p.currentChar = "\\"
  /\ stringChunks(json).held = <<"a">>
  /\ stringChunks(json).val = <<>>
  /\ last.val = <<"suspended", <<>>, <<"a">> >>

\* C31: after an append() has returned, the buffer is the start of the
\* marker expected in the mode the splitter is in, and shorter than it.
C31_BufferIsMarkerStart ==
  feed.op = "append"
  => /\ Len(stateMachine.buffer) < Len(targetSequence(stateMachine))
     /\ stateMachine.buffer
          = SubSeq(targetSequence(stateMachine), 1, Len(stateMachine.buffer))

\* C31 witness: an append() has ended in reasoning mode inside the closing
\* marker, and the buffer holds `</pl`.
C31_HalfClosingMarkerKept ==
  /\ feed.op = "append"
  /\ stateMachine.currentMode = "thought"
  /\ stateMachine.buffer = <<"<", "/", "p", "l">>
  /\ feed.before.currentMode = "text"

\* The marker that ended the segment of the k-th id of a splitter that was
\* not reset: the segments are prose and reasoning in turn.
MarkerAfter(k) == IF k % 2 = 1 THEN OpenTag ELSE CloseTag

\* The markers of the mode transitions from the segment of id i to that of
\* id j.
RECURSIVE MarkersBetween(_, _)
MarkersBetween(i, j) ==
  IF i >= j THEN <<>> ELSE MarkerAfter(i) \o MarkersBetween(i + 1, j)

\* The text the deltas ds stand for after the segment of id i, up to the
\* segment of id j: the deltas with the markers of the transitions between
\* them.
RECURSIVE Rebuilt(_, _, _)
Rebuilt(ds, i, j) ==
  IF ds = <<>> THEN MarkersBetween(i, j)
  ELSE MarkersBetween(i, Head(ds).id) \o Head(ds).textDelta
         \o Rebuilt(Tail(ds), Head(ds).id, j)

\* C32: while the splitter has not been reset, the deltas dispatched, with
\* the marker of every mode transition put back and the buffer after them,
\* are the text appended, and no delta is empty.
C32_Lossless ==
  feed.resets = 0
  => /\ Rebuilt(stateMachine.dispatched, 1, stateMachine.currentId)
          \o stateMachine.buffer = feed.appended
     /\ \A i \in DOMAIN stateMachine.dispatched :
          stateMachine.dispatched[i].textDelta # <<>>

\* C32 witness: `<plan>a</pl>b</plan>` has been appended in three
\* fragments, the second ending inside the lookalike `</pl>`; the
\* reasoning was dispatched as `a`, `</pl>b` with both markers dropped.
C32_LookalikeInReasoningKept ==
  /\ feed.resets = 0 /\ feed.appends = 3 /\ feed.rest = <<>>
  /\ feed.appended = OpenTag \o <<"a", "<", "/", "p", "l", ">", "b">> \o CloseTag
  /\ feed.before.buffer = <<"<", "/", "p", "l">>
  /\ DeltaText(stateMachine.dispatched) = <<"a", "<", "/", "p", "l", ">", "b">>
  /\ \A i \in DOMAIN stateMachine.dispatched :
       stateMachine.dispatched[i].type = "APPEND_THOUGHT"
  /\ stateMachine.currentMode = "text"
  /\ stateMachine.buffer = <<>>

\* The text the parser p has passed: the document up to the current
\* character, which is looked at and not passed.
Passed(p) == SubSeq(doc, 1, Len(doc) - Len(Rest(p)))

\* The number of characters of cs that are in the set S.
RECURSIVE CountIn(_, _)
CountIn(cs, S) ==
  IF cs = <<>> THEN 0
  ELSE (IF Head(cs) \in S THEN 1 ELSE 0) + CountIn(Tail(cs), S)

\* The last call was object() or array() and returned a cursor.
Entered == last.op \in EnterOps /\ last.err = NoErr /\ ReachedParser

\* C33: the nesting level is never negative and is the number of opening
\* brackets passed (the containers entered; no document of the model has a
\* bracket inside a string) less the number of closing brackets passed (a
\* closing bracket is passed only by a cursor); object() and array() pass
\* the whitespace and the opening bracket and nothing more, and raise the
\* level by one; skip() returns at the level it was called at.
C33_NestingLevelCounts ==
  /\ json.nestingLevel >= 0
  /\ json.nestingLevel
       = CountIn(Passed(json), {"{", "["}) - CountIn(Passed(json), {"}", "]"})
  /\ Entered => /\ json.nestingLevel = last.before.nestingLevel + 1
                /\ Head(Pending) \in {"{", "["}
                /\ Rest(json) = Tail(Pending)
  /\ (last.op = "skip" /\ last.err = NoErr)
     => json.nestingLevel = last.before.nestingLevel

\* C33 witness: inside the array of `[[],1]` skip() has passed the inner
\* array, entering and leaving it, and returned at level 1.
C33_SkipOfNestedArray ==
  /\ last.op = "skip" /\ last.err = NoErr
  /\ last.before.nestingLevel = 1
  /\ Pending = <<"[", "]", ",", "1", "]">>
  /\ json.nestingLevel = 1
  /\ CountIn(Passed(json), {"{", "["}) = 2
  /\ Rest(json) = <<",", "1", "]">>

\* The text before number() has an integer part that starts with 0 and
\* goes on with a digit.
LeadingZero ==
  /\ last.op = "number" /\ ReachedParser
  /\ \E sign \in {<<>>, <<"-">>} :
       /\ Len(Pending) >= Len(sign) + 2
       /\ SubSeq(Pending, 1, Len(sign)) = sign
       /\ Pending[Len(sign) + 1] = "0"
       /\ Pending[Len(sign) + 2] \in Digit

\* C34: number() before an integer part with a leading zero throws an
\* Error: it returns no value.
C34_LeadingZeroRejected == LeadingZero => last.err # NoErr

\* C34 witness: number() before `01` has returned 0 and left the 1.
C34_ZeroReadFromLeadingZero ==
  /\ LeadingZero
  /\ Pending = <<"0", "1">>
  /\ last.err = NoErr
  /\ last.val = <<"number", FALSE, 0, 0>>
  /\ Rest(json) = <<"1">>

\* The documents with a comma before the closing bracket: [1,] and
\* {"a":1,}.
TrailingComma == {MalformedStructure[6], MalformedStructure[7]}

\* The last call was a next() on a cursor's generator that returned done:
\* the iteration ended normally.
IterationEnded ==
  /\ last.on = "cursor" /\ last.op = "next"
  /\ last.err = NoErr /\ last.val = <<"done">>

\* C35: over a document with a comma before the closing bracket no
\* iteration ends normally.
C35_TrailingCommaRejected == doc \in TrailingComma => ~IterationEnded

\* C35 witness: the iteration of [1,] has yielded the element 0, passed
\* the comma and the bracket, and ended normally with the whole text read.
C35_TrailingCommaAccepted ==
  /\ doc = MalformedStructure[6]
  /\ IterationEnded
  /\ LastCursor.keys = <<0>>
  /\ LastCursor.root
  /\ ~LastCursor.foreign
  /\ Rest(json) = <<>>
  /\ json.nestingLevel = 0

\* The whitespace of JSON: space, tab, line feed, carriage return.
JsonWhitespace == {" ", "\t", "\n", "\r"}

\* The last call was a value() that reached the parser before a character
\* other than the four.
ValueBeforeOther ==
  /\ last.op = "value" /\ ReachedParser
  /\ Rest(last.before) # <<>>
  /\ Head(Rest(last.before)) \in {"\f", "<VT>", "<NBSP>"}

\* C36: value() before a form feed, U+000B or U+00A0 does not skip it: it
\* throws, and leaves the character where it is.
C36_OnlyJsonWhitespaceSkipped ==
  ValueBeforeOther
  => /\ last.err # NoErr
     /\ Rest(json) = Rest(last.before)

\* C36 witness: value() before a form feed and 1 has skipped the form
\* feed and returned 1.
C36_FormFeedSkipped ==
  /\ ValueBeforeOther
  /\ Rest(last.before) = <<"\f", "1">>
  /\ last.err = NoErr
  /\ last.val = <<"number", FALSE, 1, 0>>
  /\ Rest(json) = <<>>

\* C38: every file of the state is stored under its own path.
C38_FilesUnderOwnPath ==
  \A p \in DOMAIN sync.state.files : sync.state.files[p].path = p

\* C38 witness: the file created as p was renamed to q by an action the
\* reducer applied, and the file stored under q has the path p.
C38_RenamedFileKeepsOldPath ==
  /\ owner.op = "dispatch" /\ owner.err = NoErr
  /\ owner.action = [type |-> "RENAME_FILE", oldPath |-> "p", newPath |-> "q"]
  /\ \A p \in DOMAIN owner.before.state.files :
       owner.before.state.files[p].path = p
  /\ DOMAIN sync.state.files = {"q"}
  /\ sync.state.files["q"].path = "p"

\* The number of file-pending entries of the history h.
PendingCount(h) == Cardinality({i \in DOMAIN h : IsPending(h[i])})

\* The actions that complete a file action.
FileActions == {"CREATE_FILE", "UPDATE_FILE", "RENAME_FILE", "DELETE_FILE", "READ_FILE"}

\* C39: the history holds at most one file-pending entry; after a file
\* action the reducer applied it holds none; and a dispatch on which the
\* reducer threw has left the state as it was.
C39_OnePendingEntry ==
  /\ PendingCount(sync.state.history) <= 1
  /\ (owner.op = "dispatch" /\ owner.err = NoErr /\ owner.action.type \in FileActions)
     => PendingCount(sync.state.history) = 0
  /\ (owner.op = "dispatch" /\ owner.err # NoErr) => sync.state = owner.before.state

\* C39 witness: a pending create was entered and given its path, and the
\* CREATE_FILE after it has removed the entry and put the file's in its
\* place.
C39_PendingReplacedByFile ==
  /\ owner.op = "dispatch" /\ owner.err = NoErr
  /\ owner.action.type = "CREATE_FILE"
  /\ Len(owner.returned) = 3
  /\ Len(owner.before.state.history) = 1
  /\ IsPending(owner.before.state.history[1])
  /\ owner.before.state.history[1].paths = <<"p">>
  /\ Len(sync.state.history) = 1
  /\ sync.state.history[1].type = "file"

\* The history the reducer makes of the deltas the splitter has dispatched.
Folded == FoldFrom(initialState, stateMachine.dispatched, 1).history

\* The runs of the deltas ds: every run of neighbouring deltas of one id as
\* the entry it should make, the texts of the run joined in order.
RECURSIVE Runs(_)
Runs(ds) ==
  IF ds = <<>> THEN <<>>
  ELSE LET before == Runs(SubSeq(ds, 1, Len(ds) - 1))
           delta == ds[Len(ds)]
       IN IF Len(ds) > 1 /\ ds[Len(ds) - 1].id = delta.id
          THEN [before EXCEPT ![Len(before)].text = @ \o delta.textDelta]
          ELSE Append(before,
                      [id |-> delta.id,
                       type |-> IF delta.type = "APPEND_TEXT" THEN "text"
                                ELSE "thought",
                       isFromUser |-> FALSE,
                       text |-> delta.textDelta])

\* C40: the reducer folded over the deltas of the splitter makes one
\* history entry of every segment, of the segment's type and with the
\* segment's deltas joined in order as its text, the entries in the order
\* of the segments.
C40_SegmentsBecomeEntries == Folded = Runs(stateMachine.dispatched)

\* C40 witness: `ab<plan>cd` has been appended as a, b<plan>c and d; the
\* four deltas have been folded into the text entry ab and, after it, the
\* thought entry cd.
C40_TwoEntriesOfFourDeltas ==
  /\ feed.resets = 0 /\ feed.appends = 3
  /\ Len(stateMachine.dispatched) = 4
  /\ Len(Folded) = 2
  /\ Folded[1].type = "text" /\ Folded[1].text = <<"a", "b">>
  /\ Folded[2].type = "thought" /\ Folded[2].text = <<"c", "d">>
  /\ Folded[1].id # Folded[2].id

\* C37: continueConversation is never stopped short of sync.done(): it is
\* in its loop, which the end of the stream leaves for sync.done(), or it
\* has called sync.done().
C37_DoneNeverMissed == conv.at = "loop" \/ sync.closed

\* C37 witness: the text delta `a<` left the `<` in the splitter's buffer,
\* and the tool-call-streaming-start after it was stopped by reset():
\* the stream of actions is left open.
C37_ResetStopsTheLoop ==
  /\ conv.at = "thrown"
  /\ conv.event = [type |-> "tool-call-streaming-start", toolName |-> "createFile"]
  /\ conv.err = "Buffer was not empty: \"<\""
  /\ stateMachine.buffer = <<"<">>
  /\ ~sync.closed
  /\ Len(sync.streamableValue) = 2

====
